---- MODULE Spec2Model ----
(***************************************************************************)
(* A model of the RISC-V binary-to-verification-IR translator:             *)
(*   - the function-model builder (Translator::gen_func_model and its      *)
(*     helpers in src/src/translator.rs) as a state machine over the       *)
(*     translator context, with the recursion into callees made explicit   *)
(*     as a call stack;                                                    *)
(*   - the VIR rewriters run on every basic block (ConstantPropagator,     *)
(*     DataMemoryAbstractor) and the modifies-set inference;               *)
(*   - the three specification-lowering passes of src/src/lib.rs           *)
(*     (VExprTypeInference, RenameGlobals, ConstantFolder) over the        *)
(*     specification AST of src/asts/src/spec_lang/sl_ast.rs.              *)
(*                                                                         *)
(* u64 arithmetic is modelled on words of WordBits bits (U64Mod values);   *)
(* an arithmetic overflow or an over-wide shift panics in a build with     *)
(* overflow checks and wraps in a build without them (overflow_checks).    *)
(***************************************************************************)
EXTENDS Integers, Sequences, FiniteSets, TLC

VARIABLES
    \* ---- translator inputs (Translator struct, translator.rs:36-52)
    bbs,            \* address -> basic block (entry, exit instruction, body)
    ignored_funcs,  \* set of function names to ignore
    specs_map,      \* function name -> sequence of Spec records
    ignore_specs,   \* flag: drop pre/post conditions and inline functions
    \* ---- translator context (translator.rs:57-63) and model
    generated,      \* set of entry addresses already generated
    cfg_memo,       \* entry address -> the memoized Cfg (its nodes, in
                    \* the order its node map iterates)
    mod_set_map,    \* procedure name -> modifies set (a function on its keys)
    func_models,    \* Model.func_models: sequence of FuncModel records
    model_vars,     \* Model.vars: set of Var records
    \* ---- control state of the run
    stack,          \* activation records of gen_func_model, top is last
    status,         \* "idle" | "running" | "panic"
    err,            \* the panic raised, NoErr otherwise
    calls,          \* number of gen_func_model calls made by the driver
    builds,         \* entry address -> times the body build was started
    last_call,      \* name passed to the last driver call
    \* ---- build profile
    overflow_checks,\* TRUE: arithmetic overflow panics; FALSE: it wraps
    \* ---- specification-lowering pipeline (lib.rs:305-326)
    sl_fname,       \* name of the function the spec belongs to
    sl_input,       \* the parsed BExpr
    sl_bexpr,       \* the BExpr after the passes run so far
    sl_prev,        \* the BExpr before the last pass
    sl_passes,      \* sequence of the passes run so far
    \* ---- backend emitter (uclidinterface.rs:591-622)
    dwarf_globals,  \* DwarfCtx::global_vars(): the DwarfVars, as iterated
    model_str,      \* the module print_model has written, NoOutput before
    \* ---- the rewriters of one basic-block body (translator.rs:259-265)
    cp_input,       \* the statements of the Block handed to the rewriters
    cp_ctx,         \* ConstantPropagator's map: variable name -> u64
    cp_stmts,       \* the statements ConstantPropagator has emitted so far
    dma_body,       \* the body after DataMemoryAbstractor, NoStmt before
    dma_vars,       \* abs_var_names: the set DataMemoryAbstractor filled
    vir_phase       \* "none" | "propagate" | "abstract" | "done" | "panic"

vars == << bbs, ignored_funcs, specs_map, ignore_specs, generated, cfg_memo, mod_set_map,
           func_models, model_vars, stack, status, err, calls, builds,
           last_call, overflow_checks, sl_fname, sl_input, sl_bexpr, sl_prev,
           sl_passes, dwarf_globals, model_str, cp_input, cp_ctx, cp_stmts,
           dma_body, dma_vars, vir_phase >>

builder_vars == << bbs, ignored_funcs, specs_map, ignore_specs, generated, cfg_memo,
                   mod_set_map, func_models, model_vars, stack, status, err,
                   calls, builds, last_call >>

sl_vars == << sl_fname, sl_input, sl_bexpr, sl_prev, sl_passes >>

emit_vars == << dwarf_globals, model_str >>

vir_vars == << cp_input, cp_ctx, cp_stmts, dma_body, dma_vars, vir_phase >>

-----------------------------------------------------------------------------
(* Bounds of the model *)

\* number of basic blocks of the binary (addresses 1..MaxBlocks)
MaxBlocks == 4
\* number of gen_func_model calls the driver makes
MaxCalls == 2
\* width of the modelled machine word standing for u64
WordBits == 4

(* Program constants *)
BYTE_SIZE == 8
XLEN == 64

Addrs == 1..MaxBlocks
U64Mod == 2 ^ WordBits

-----------------------------------------------------------------------------
(* Generic helpers *)

Range(s) == { s[i] : i \in DOMAIN s }

Min(S) == CHOOSE x \in S : \A y \in S : x <= y

RECURSIVE SortAsc(_)
\* Vec::sort on a vector of distinct u64, given as the set of its elements
SortAsc(S) == IF S = {} THEN <<>> ELSE << Min(S) >> \o SortAsc(S \ {Min(S)})

Reverse(s) == [ i \in 1..Len(s) |-> s[Len(s) + 1 - i] ]

RECURSIVE UnionAll(_)
UnionAll(SS) ==
    IF SS = {} THEN {}
    ELSE LET x == CHOOSE x \in SS : TRUE IN x \cup UnionAll(SS \ {x})

-----------------------------------------------------------------------------
(* Machine words: u64 arithmetic on WordBits-bit words *)

\* an arithmetic result that is a panic (overflow, division by zero)
ArithPanic == 0 - 1

\* x + y, x - y, x * y on u64: the checked operators of a build with overflow
\* checks panic when the result leaves the range, the others wrap
Wrap(v) == IF overflow_checks /\ (v < 0 \/ v >= U64Mod) THEN ArithPanic
           ELSE v % U64Mod

U64Add(a, b) == Wrap(a + b)
U64Sub(a, b) == Wrap(a - b)
U64Mul(a, b) == Wrap(a * b)
\* x / y on u64: division by zero panics in every build
U64Div(a, b) == IF b = 0 THEN ArithPanic ELSE a \div b

RECURSIVE BitOp(_, _, _, _)
\* bitwise operator f on the low n bits of a and b
BitOp(f, a, b, n) ==
    IF n = 0 THEN 0
    ELSE LET x == a % 2
             y == b % 2
             r == CASE f = "and" -> IF x = 1 /\ y = 1 THEN 1 ELSE 0
                    [] f = "or"  -> IF x = 1 \/ y = 1 THEN 1 ELSE 0
                    [] f = "xor" -> IF x # y THEN 1 ELSE 0
         IN r + 2 * BitOp(f, a \div 2, b \div 2, n - 1)

U64And(a, b) == BitOp("and", a, b, WordBits)
U64Or(a, b)  == BitOp("or", a, b, WordBits)
U64Xor(a, b) == BitOp("xor", a, b, WordBits)

\* `v as i64` and `v as u64`
AsI64(v) == IF v >= U64Mod \div 2 THEN v - U64Mod ELSE v
AsU64(v) == IF v < 0 THEN v + U64Mod ELSE v

\* the shift amount the machine uses: an amount of WordBits or more overflows
ShiftAmount(s) == IF s >= WordBits
                  THEN (IF overflow_checks THEN ArithPanic ELSE s % WordBits)
                  ELSE s

\* x << s, x >> s on u64 and (x as i64) >> s
U64Shl(a, s) == IF ShiftAmount(s) = ArithPanic THEN ArithPanic
                ELSE (a * 2 ^ ShiftAmount(s)) % U64Mod
U64Shr(a, s) == IF ShiftAmount(s) = ArithPanic THEN ArithPanic
                ELSE a \div 2 ^ ShiftAmount(s)
I64Shr(a, s) == IF ShiftAmount(s) = ArithPanic THEN ArithPanic
                ELSE AsU64(AsI64(a) \div 2 ^ ShiftAmount(s))

-----------------------------------------------------------------------------
(* Names *)

PC_VAR == "pc"
RETURNED_FLAG == "returned"
MEM_VAR_B == "mem_b"
MEM_VAR_H == "mem_h"
MEM_VAR_W == "mem_w"
MEM_VAR_D == "mem_d"
JAL == "jal"

\* format!("mem_access_{}", addr) for the addresses of the modelled word
MemAccessNames == <<
    "mem_access_0", "mem_access_1", "mem_access_2", "mem_access_3",
    "mem_access_4", "mem_access_5", "mem_access_6", "mem_access_7",
    "mem_access_8", "mem_access_9", "mem_access_10", "mem_access_11",
    "mem_access_12", "mem_access_13", "mem_access_14", "mem_access_15",
    "mem_access_16", "mem_access_17", "mem_access_18", "mem_access_19",
    "mem_access_20", "mem_access_21", "mem_access_22", "mem_access_23",
    "mem_access_24", "mem_access_25", "mem_access_26", "mem_access_27",
    "mem_access_28", "mem_access_29", "mem_access_30", "mem_access_31",
    "mem_access_32", "mem_access_33", "mem_access_34", "mem_access_35",
    "mem_access_36", "mem_access_37", "mem_access_38", "mem_access_39",
    "mem_access_40", "mem_access_41", "mem_access_42", "mem_access_43",
    "mem_access_44", "mem_access_45", "mem_access_46", "mem_access_47",
    "mem_access_48", "mem_access_49", "mem_access_50", "mem_access_51",
    "mem_access_52", "mem_access_53", "mem_access_54", "mem_access_55",
    "mem_access_56", "mem_access_57", "mem_access_58", "mem_access_59",
    "mem_access_60", "mem_access_61", "mem_access_62", "mem_access_63" >>

abs_access_name(addr) == MemAccessNames[addr + 1]

\* format!("bb_{:#x?}", addr)
BbNames == << "bb_0x1", "bb_0x2", "bb_0x3", "bb_0x4", "bb_0x5", "bb_0x6",
              "bb_0x7", "bb_0x8" >>

bb_proc_name(addr) == BbNames[addr]

\* the label (function name) the binary carries at a function entry address
LabelNames == << "f1", "f2", "f3", "f4", "f5", "f6", "f7", "f8" >>

\* a name that is no label of the binary
NoSuchFunc == "nosuch"
\* the argument registers a0, a1, ... of a call (format!("a{}", i))
ArgRegNames == << "a0", "a1", "a2", "a3" >>

-----------------------------------------------------------------------------
(* VIR: types, expressions and statements (src/asts/src/veriv_ast.rs) *)

BvType(w) == [t |-> "Bv", w |-> w]
BoolType == [t |-> "Bool"]
IntType == [t |-> "Int"]
ArrayType(in_typ, out_typ) == [t |-> "Array", in_typ |-> in_typ, out_typ |-> out_typ]

\* a panic raised while an expression or statement is built
PanicExpr == [e |-> "Panic"]
IsPanic(expr) == expr.e = "Panic"
AnyPanic(exprs) == \E i \in DOMAIN exprs : IsPanic(exprs[i])

bv_lit(val, width) ==
    [e |-> "Literal", lit |-> "Bv", val |-> val, width |-> width, typ |-> BvType(width)]
bool_lit(b) ==
    [e |-> "Literal", lit |-> "Bool", val |-> IF b THEN 1 ELSE 0, width |-> 0, typ |-> BoolType]
int_lit(val) ==
    [e |-> "Literal", lit |-> "Int", val |-> val, width |-> 0, typ |-> IntType]
var(name, typ) == [e |-> "Var", name |-> name, typ |-> typ]
OpApp(op, operands, typ) == [e |-> "OpApp", op |-> op, operands |-> operands, typ |-> typ]
FuncApp(func_name, operands, typ) ==
    [e |-> "FuncApp", func_name |-> func_name, operands |-> operands, typ |-> typ]

is_lit(expr) == expr.e = "Literal"

CompOp(f) == [o |-> "Comp", f |-> f]
BVOp(f)   == [o |-> "Bv", f |-> f]
BoolOp(f) == [o |-> "Bool", f |-> f]
Slice(l, r) == [o |-> "Bv", f |-> "Slice", l |-> l, r |-> r]
ArrayIndexOp == [o |-> "ArrayIndex"]

\* Expr::op_app: the type is inferred from the operator and operand 0
op_app(op, operands) ==
    IF AnyPanic(operands) THEN PanicExpr
    ELSE CASE op.o \in {"Comp", "Bool"} -> OpApp(op, operands, BoolType)
           [] op.o = "Bv" -> OpApp(op, operands, operands[1].typ)
           [] op.o = "ArrayIndex" ->
                IF operands[1].typ.t = "Array"
                THEN OpApp(op, operands, operands[1].typ.out_typ)
                ELSE PanicExpr
           [] OTHER -> PanicExpr

get_array_index(expr) == expr.operands[2]
get_array_expr(expr) == expr.operands[1]
is_array_index(expr) ==
    expr.e = "OpApp" /\ expr.op.o = "ArrayIndex" /\ Len(expr.operands) >= 2

Assign(lhs, rhs) == [s |-> "Assign", lhs |-> lhs, rhs |-> rhs]
NoStmt == [s |-> "None"]
if_then_else(cond, then_stmt, else_stmt) ==
    [s |-> "IfThenElse", cond |-> cond, then_stmt |-> then_stmt, else_stmt |-> else_stmt]
Block(stmts) == [s |-> "Block", stmts |-> stmts]
func_call(func_name, lhs, operands) ==
    [s |-> "FuncCall", func_name |-> func_name, lhs |-> lhs, operands |-> operands]

\* system-model variables
pc_var == var(PC_VAR, BvType(XLEN))
returned_var == var(RETURNED_FLAG, BvType(1))
reg(name) == var(name, BvType(XLEN))
mem_var(name, bytes) ==
    var(name, ArrayType(BvType(XLEN), BvType(bytes * BYTE_SIZE)))

\* finite maps (HashMap<String, u64>)
EmptyMap == << >>
Put(f, k, v) == [x \in (DOMAIN f) \cup {k} |-> IF x = k THEN v ELSE f[x]]
Remove(f, k) == [x \in (DOMAIN f) \ {k} |-> f[x]]

-----------------------------------------------------------------------------
(* helpers::mask (src/utils/src/helpers.rs) *)

RECURSIVE MaskBits(_, _, _)
\* the loop `for i in 0..63` of mask over the bits i .. top-1
MaskBits(l, r, i) ==
    IF i >= WordBits - 1 THEN 0
    ELSE (IF r <= i /\ i <= l THEN 2 ^ i ELSE 0) + MaskBits(l, r, i + 1)

mask(l, r) == MaskBits(l, r, 0)

-----------------------------------------------------------------------------
(* ConstantPropagator (translator.rs:1082-1254) *)

CP_comp(f, a, b) ==
    CASE f = "Equality"   -> a = b
      [] f = "Inequality" -> a # b
      [] f = "Lt"  -> AsI64(a) < AsI64(b)
      [] f = "Le"  -> AsI64(a) <= AsI64(b)
      [] f = "Gt"  -> AsI64(a) > AsI64(b)
      [] f = "Ge"  -> AsI64(a) >= AsI64(b)
      [] f = "Ltu" -> a < b
      [] f = "Leu" -> a <= b
      [] f = "Gtu" -> a > b
      [] f = "Geu" -> a >= b

\* the value of a folded bit-vector operator on two literal values
CP_bv_value(f, a, b) ==
    CASE f = "Add" -> U64Add(a, b)
      [] f = "Sub" -> U64Sub(a, b)
      [] f = "Mul" -> U64Mul(a, b)
      [] f = "And" -> U64And(a, b)
      [] f = "Or"  -> U64Or(a, b)
      [] f = "Xor" -> U64Xor(a, b)
      [] f = "SignExt" -> a
      [] f = "ZeroExt" -> a
      [] f = "LeftShift" -> U64Shl(a, b)
      [] f = "RightShift" -> I64Shr(a, b)
      [] f = "ARightShift" -> U64Shr(a, b)

\* the width of a folded bit-vector literal
CP_bv_width(f, w, b) == IF f \in {"SignExt", "ZeroExt"} THEN w + b ELSE w

\* the match on the operator once every operand is a literal
CP_fold_literals(op, rw, typ) ==
    LET v1 == rw[1].val
        has2 == Len(rw) >= 2
        v2 == IF has2 THEN rw[2].val ELSE 0
    IN  CASE op.o = "Comp" ->
                IF ~has2 THEN PanicExpr ELSE bool_lit(CP_comp(op.f, v1, v2))
          [] op.o = "Bv" /\ op.f = "Concat" -> OpApp(op, rw, typ)
          [] op.o = "Bv" /\ op.f = "Slice" ->
                IF rw[1].lit # "Bv" \/ U64Sub(op.l, op.r) = ArithPanic
                THEN PanicExpr
                ELSE bv_lit(U64And(v1, mask(op.l, op.r)), op.l - op.r + 1)
          [] op.o = "Bv" /\ op.f \notin {"Concat", "Slice"} ->
                IF ~has2 \/ rw[1].lit # "Bv" \/ CP_bv_value(op.f, v1, v2) = ArithPanic
                THEN PanicExpr
                ELSE bv_lit(CP_bv_value(op.f, v1, v2), CP_bv_width(op.f, rw[1].width, v2))
          [] op.o = "Bool" /\ op.f = "Neg" -> bool_lit(v1 # 1)
          [] op.o = "Bool" /\ op.f # "Neg" ->
                IF ~has2 \/ (op.f \in {"Conj", "Disj"} /\ U64Add(v1, v2) = ArithPanic)
                THEN PanicExpr
                ELSE bool_lit(CASE op.f = "Conj" -> U64Add(v1, v2) = 2
                                [] op.f = "Disj" -> U64Add(v1, v2) > 0
                                [] op.f = "Iff"  -> v1 = v2
                                [] op.f = "Impl" -> v1 <= v2)
          [] OTHER -> OpApp(op, rw, typ)

RECURSIVE CP_constant_fold(_)
\* ConstantPropagator::constant_fold
CP_constant_fold(expr) ==
    IF expr.e # "OpApp" THEN expr
    ELSE LET rw == [i \in DOMAIN expr.operands |-> CP_constant_fold(expr.operands[i])]
         IN  IF Len(rw) = 0 \/ AnyPanic(rw) THEN PanicExpr
             ELSE IF ~(is_lit(rw[1]) /\ (Len(rw) >= 2 => is_lit(rw[2])))
                  THEN OpApp(expr.op, rw, expr.typ)
                  ELSE CP_fold_literals(expr.op, rw, expr.typ)

RECURSIVE constified_expr(_, _)
\* ConstantPropagator::constified_expr
constified_expr(expr, ctx) ==
    CASE expr.e = "Var" ->
            IF expr.name \in DOMAIN ctx
            THEN CASE expr.typ.t = "Bv"   -> bv_lit(ctx[expr.name], expr.typ.w)
                   [] expr.typ.t = "Bool" -> bool_lit(ctx[expr.name] = 1)
                   [] expr.typ.t = "Int"  -> int_lit(ctx[expr.name])
                   [] OTHER -> expr
            ELSE expr
      [] expr.e = "OpApp" ->
            op_app(expr.op, [i \in DOMAIN expr.operands |->
                                constified_expr(expr.operands[i], ctx)])
      [] expr.e = "FuncApp" ->
            LET rw == [i \in DOMAIN expr.operands |->
                          constified_expr(expr.operands[i], ctx)]
            IN  IF AnyPanic(rw) THEN PanicExpr
                ELSE FuncApp(expr.func_name, rw, expr.typ)
      [] OTHER -> expr

\* ConstantPropagator::try_make_constant
try_make_constant(expr, ctx) == CP_constant_fold(constified_expr(expr, ctx))

\* a pair rewriter that keeps the entry of a variable whose new value is no
\* literal
CP_rewrite_pair_keeping(l, r, ctx) ==
    CASE l.e = "Var" ->
            LET propagate(rw_r) ==
                    [l |-> l, r |-> rw_r,
                     ctx |-> IF is_lit(rw_r) THEN Put(ctx, l.name, rw_r.val) ELSE ctx]
            IN  propagate(try_make_constant(r, ctx))
      [] OTHER -> [l |-> l, r |-> try_make_constant(r, ctx), ctx |-> ctx]

\* one (l, r) pair of ConstantPropagator::rewrite_assign, with
\* constant_propagate inlined; yields the rewritten pair and the updated map
CP_rewrite_pair(l, r, ctx) ==
    CASE l.e = "Var" ->
            LET propagate(rw_r) ==
                    [l |-> l, r |-> rw_r,
                     ctx |-> IF is_lit(rw_r) THEN Put(ctx, l.name, rw_r.val)
                             ELSE Remove(ctx, l.name)]
            IN  propagate(try_make_constant(r, ctx))
      [] is_array_index(l) ->
            [l |-> op_app(ArrayIndexOp,
                          << get_array_expr(l), try_make_constant(get_array_index(l), ctx) >>),
             r |-> try_make_constant(r, ctx),
             ctx |-> ctx]
      [] l.e = "OpApp" /\ l.op.o = "ArrayIndex" /\ Len(l.operands) < 2 ->
            [l |-> PanicExpr, r |-> r, ctx |-> ctx]
      [] OTHER -> [l |-> l, r |-> r, ctx |-> ctx]

RECURSIVE CP_rewrite_assign(_, _, _, _)
\* ConstantPropagator::rewrite_assign: the loop over lhs.zip(rhs) from pair i
\* on; acc holds the rewritten pairs so far and the map
CP_rewrite_assign(lhs, rhs, i, acc) ==
    IF i > Len(lhs) \/ i > Len(rhs) THEN acc
    ELSE LET push(p) ==
                 CP_rewrite_assign(lhs, rhs, i + 1,
                     [lhs |-> Append(acc.lhs, p.l), rhs |-> Append(acc.rhs, p.r),
                      ctx |-> p.ctx])
         IN  push(CP_rewrite_pair(lhs[i], rhs[i], acc.ctx))

RECURSIVE CP_visit_stmt(_, _), CP_visit_stmts(_, _, _)
\* ConstantPropagator::visit_stmt with the map ctx; yields [stmt, ctx]
CP_visit_stmt(stmt, ctx) ==
    CASE stmt.s = "Assign" ->
            LET rebuilt(a) == [stmt |-> Assign(a.lhs, a.rhs), ctx |-> a.ctx]
            IN  rebuilt(CP_rewrite_assign(stmt.lhs, stmt.rhs, 1,
                                          [lhs |-> << >>, rhs |-> << >>, ctx |-> ctx]))
      [] stmt.s = "IfThenElse" -> [stmt |-> stmt, ctx |-> EmptyMap]
      [] stmt.s = "Block" ->
            LET rebuilt(b) == [stmt |-> Block(b.stmts), ctx |-> b.ctx]
            IN  rebuilt(CP_visit_stmts(stmt.stmts, 1, [stmts |-> << >>, ctx |-> ctx]))
      [] OTHER -> [stmt |-> stmt, ctx |-> ctx]

\* the statements of a block from statement i on, in order
CP_visit_stmts(stmts, i, acc) ==
    IF i > Len(stmts) THEN acc
    ELSE LET push(r) ==
                 CP_visit_stmts(stmts, i + 1,
                     [stmts |-> Append(acc.stmts, r.stmt), ctx |-> r.ctx])
         IN  push(CP_visit_stmt(stmts[i], acc.ctx))

\* ConstantPropagator::visit_stmt(body, empty map) as run by gen_func_model
ConstantPropagate(body) == CP_visit_stmt(body, EmptyMap).stmt

-----------------------------------------------------------------------------
(* DataMemoryAbstractor (translator.rs:1256-1291) *)

MemVarBytes(name) ==
    CASE name = MEM_VAR_B -> 1
      [] name = MEM_VAR_H -> 2
      [] name = MEM_VAR_W -> 4
      [] name = MEM_VAR_D -> 8
      [] OTHER -> 0

\* the access rewritten by DataMemoryAbstractor::rewrite_expr: an array
\* access whose index is a literal
DMA_abstracts(expr) == is_array_index(expr) /\ is_lit(get_array_index(expr))

\* a rewriter that abstracts no access
DMA_rewrite_expr_kept(expr) == expr

\* DataMemoryAbstractor::rewrite_expr, on a node whose children are rewritten
DMA_rewrite_expr(expr) ==
    IF ~DMA_abstracts(expr) THEN expr
    ELSE IF get_array_expr(expr).e # "Var" THEN PanicExpr
    ELSE IF MemVarBytes(get_array_expr(expr).name) = 0 THEN PanicExpr
    ELSE var(abs_access_name(get_array_index(expr).val), expr.typ)

RECURSIVE DMA_visit_expr(_)
\* ASTRewriter::visit_expr for DataMemoryAbstractor (children first)
DMA_visit_expr(expr) ==
    IF expr.e \in {"OpApp", "FuncApp"}
    THEN LET rw == [i \in DOMAIN expr.operands |-> DMA_visit_expr(expr.operands[i])]
         IN  IF AnyPanic(rw) THEN PanicExpr
             ELSE DMA_rewrite_expr([expr EXCEPT !.operands = rw])
    ELSE DMA_rewrite_expr(expr)

RECURSIVE DMA_expr_vars(_)
\* the variables rewrite_expr inserts into its context while expr is visited
DMA_expr_vars(expr) ==
    IF expr.e \in {"OpApp", "FuncApp"}
    THEN LET rw == [i \in DOMAIN expr.operands |-> DMA_visit_expr(expr.operands[i])]
             here == [expr EXCEPT !.operands = rw]
         IN  UnionAll({ DMA_expr_vars(expr.operands[i]) : i \in DOMAIN expr.operands })
             \cup (IF ~AnyPanic(rw) /\ DMA_abstracts(here)
                      /\ ~IsPanic(DMA_rewrite_expr(here))
                   THEN { [name |-> abs_access_name(get_array_index(here).val),
                           typ |-> BvType(MemVarBytes(get_array_expr(here).name) * BYTE_SIZE)] }
                   ELSE {})
    ELSE {}

DMA_visit_exprs(exprs) == [i \in DOMAIN exprs |-> DMA_visit_expr(exprs[i])]
DMA_exprs_vars(exprs) == UnionAll({ DMA_expr_vars(exprs[i]) : i \in DOMAIN exprs })

RECURSIVE DMA_visit_stmt(_)
\* ASTRewriter::visit_stmt for DataMemoryAbstractor
DMA_visit_stmt(stmt) ==
    CASE stmt.s = "Assign" -> Assign(DMA_visit_exprs(stmt.lhs), DMA_visit_exprs(stmt.rhs))
      [] stmt.s = "FuncCall" ->
            func_call(stmt.func_name, DMA_visit_exprs(stmt.lhs), DMA_visit_exprs(stmt.operands))
      [] stmt.s = "IfThenElse" ->
            if_then_else(DMA_visit_expr(stmt.cond), DMA_visit_stmt(stmt.then_stmt),
                         IF stmt.else_stmt = NoStmt THEN NoStmt
                         ELSE DMA_visit_stmt(stmt.else_stmt))
      [] stmt.s = "Block" -> Block([i \in DOMAIN stmt.stmts |-> DMA_visit_stmt(stmt.stmts[i])])
      [] OTHER -> stmt

RECURSIVE DMA_stmt_vars(_)
\* the HashSet<Var> filled by the DataMemoryAbstractor visit of stmt
DMA_stmt_vars(stmt) ==
    CASE stmt.s = "Assign" -> DMA_exprs_vars(stmt.lhs) \cup DMA_exprs_vars(stmt.rhs)
      [] stmt.s = "FuncCall" -> DMA_exprs_vars(stmt.lhs) \cup DMA_exprs_vars(stmt.operands)
      [] stmt.s = "IfThenElse" ->
            DMA_expr_vars(stmt.cond) \cup DMA_stmt_vars(stmt.then_stmt)
            \cup (IF stmt.else_stmt = NoStmt THEN {} ELSE DMA_stmt_vars(stmt.else_stmt))
      [] stmt.s = "Block" -> UnionAll({ DMA_stmt_vars(stmt.stmts[i]) : i \in DOMAIN stmt.stmts })
      [] OTHER -> {}

RECURSIVE StmtPanics(_)
\* a panic was raised while the statement was rewritten
StmtPanics(stmt) ==
    CASE stmt.s = "Assign" -> AnyPanic(stmt.lhs) \/ AnyPanic(stmt.rhs)
      [] stmt.s = "FuncCall" -> AnyPanic(stmt.lhs) \/ AnyPanic(stmt.operands)
      [] stmt.s = "IfThenElse" ->
            IsPanic(stmt.cond) \/ StmtPanics(stmt.then_stmt)
            \/ (stmt.else_stmt # NoStmt /\ StmtPanics(stmt.else_stmt))
      [] stmt.s = "Block" -> \E i \in DOMAIN stmt.stmts : StmtPanics(stmt.stmts[i])
      [] OTHER -> FALSE

-----------------------------------------------------------------------------
(* Translator::infer_mod_set (translator.rs:373-430) *)

ModSetPanic == "panic!"

\* the name an assignment's left-hand side contributes
AssignLhsName(e) ==
    CASE e.e = "Var" -> e.name
      [] e.e = "OpApp" ->
            IF e.op.o = "ArrayIndex" /\ Len(e.operands) >= 1 /\ e.operands[1].e = "Var"
            THEN e.operands[1].name
            ELSE ModSetPanic
      [] OTHER -> ModSetPanic

RECURSIVE infer_mod_set_in(_, _)
\* infer_mod_set with the translator's mod_set_map passed as msm
infer_mod_set_in(stmt, msm) ==
    {PC_VAR, RETURNED_FLAG} \cup
    CASE stmt.s = "FuncCall" ->
            (IF stmt.func_name \in DOMAIN msm THEN msm[stmt.func_name] ELSE {})
            \cup { IF stmt.lhs[i].e = "Var" THEN stmt.lhs[i].name ELSE ModSetPanic :
                     i \in DOMAIN stmt.lhs }
      [] stmt.s = "Assign" -> { AssignLhsName(stmt.lhs[i]) : i \in DOMAIN stmt.lhs }
      [] stmt.s = "IfThenElse" ->
            infer_mod_set_in(stmt.then_stmt, msm)
            \cup (IF stmt.else_stmt = NoStmt THEN {}
                  ELSE infer_mod_set_in(stmt.else_stmt, msm))
      [] stmt.s = "Block" ->
            UnionAll({ infer_mod_set_in(stmt.stmts[i], msm) : i \in DOMAIN stmt.stmts })
      [] OTHER -> {}

infer_mod_set(stmt) == infer_mod_set_in(stmt, mod_set_map)

-----------------------------------------------------------------------------
(* Translator context: labels, CFG views, specification map *)

NoName == ""
NoAddr == 0

\* Translator::get_func_at
get_func_at(addr) ==
    IF bbs[addr].is_label_entry THEN bbs[addr].function_name ELSE NoName

\* create_label_to_addr_map followed by Translator::func_entry_addr
func_entry_addr(func_name) ==
    IF \E b \in DOMAIN bbs : bbs[b].is_label_entry /\ bbs[b].function_name = func_name
    THEN CHOOSE b \in DOMAIN bbs :
            bbs[b].is_label_entry /\ bbs[b].function_name = func_name
    ELSE NoAddr

RECURSIVE Reach(_, _)
\* the blocks reachable from the set seen along successor edges
Reach(seen, frontier) ==
    IF frontier = {} THEN seen
    ELSE LET next == UNION { Range(bbs[b].successors) : b \in frontier } \ seen
         IN  Reach(seen \cup next, next)

\* cfg::Cfg::new(addr, &bbs).nodes(): the per-function view of the blocks
CfgNodes(addr) == Reach({addr}, {addr})

\* where the second function of a binary of two functions starts
SecondLabel == 3

\* Translator::func_args: the DWARF signature's formal arguments; the second
\* function of a binary has one formal argument of four bytes
func_args(func_name) ==
    IF func_name \in {LabelNames[2], LabelNames[SecondLabel]}
    THEN << var("n", BvType(32)) >>
    ELSE << >>

\* the arguments of a FuncModel signature (gen_func_model:335-342)
arg_exprs(func_name) ==
    [i \in DOMAIN func_args(func_name) |-> var(func_args(func_name)[i].name, BvType(XLEN))]

\* Translator::mod_set_from_spec_map; NoSpec stands for None
NoSpec == {"<none>"}
mod_set_from_spec_map(func_name) ==
    IF func_name \in DOMAIN specs_map
    THEN UNION { specs_map[func_name][i].vars :
                   i \in { j \in DOMAIN specs_map[func_name] :
                             specs_map[func_name][j].kind = "Modifies" } }
    ELSE NoSpec

\* Translator::get_callee_addrs: the targets of the jal lines of func_name
\* among the nodes, in the iteration order `order` of the nodes
get_callee_addrs(func_name, order) ==
    LET sel == SelectSeq(order, LAMBDA b : bbs[b].function_name = func_name
                                           /\ bbs[b].op = JAL)
    IN  [i \in DOMAIN sel |-> bbs[sel[i]].imm]

-----------------------------------------------------------------------------
(* Translator::topo_sort and Translator::compute_deps (translator.rs:543-637) *)

\* TopologicalSort::new followed by insert(entry)
ts_new(entry) == [nodes |-> {entry}, edges |-> {}]
\* TopologicalSort::add_dependency
add_dependency(ts, prec, succ) ==
    [nodes |-> ts.nodes \cup {prec, succ}, edges |-> ts.edges \cup {<< prec, succ >>}]
\* the elements TopologicalSort::pop_all returns: those without predecessor
pop_all(ts) == { n \in ts.nodes : ~\E e \in ts.edges : e[2] = n }
\* the sort once pop_all has removed them
ts_after_pop(ts) ==
    [nodes |-> ts.nodes \ pop_all(ts),
     edges |-> { e \in ts.edges : e[1] \notin pop_all(ts) }]

\* the closure `ignore` of topo_sort
ignore(addr) == get_func_at(addr) # NoName /\ get_func_at(addr) \in ignored_funcs

RECURSIVE compute_deps(_, _, _), compute_deps_succ(_, _, _, _)
\* Translator::compute_deps; st holds ts, processed and a panic flag
compute_deps(nodes, curr, st) ==
    IF curr \in st.processed THEN st
    ELSE LET st1 == [st EXCEPT !.processed = @ \cup {curr}]
         IN  IF curr \notin nodes THEN [st1 EXCEPT !.panic = TRUE]
             ELSE IF ignore(curr) THEN st1
             ELSE compute_deps_succ(nodes, curr, 1, st1)

\* the loop over the successors of curr, from successor i on
compute_deps_succ(nodes, curr, i, st) ==
    IF st.panic \/ i > Len(bbs[curr].successors) THEN st
    ELSE LET target == bbs[curr].successors[i]
             st1 == [st EXCEPT !.ts = add_dependency(@, curr, target)]
         IN  IF target \notin nodes THEN [st1 EXCEPT !.panic = TRUE]
             ELSE IF bbs[target].is_label_entry
                  THEN compute_deps_succ(nodes, curr, i + 1, st1)
                  ELSE compute_deps_succ(nodes, curr, i + 1,
                                         compute_deps(nodes, target, st1))

\* the dependency graph topo_sort builds for the CFG entered at entry
deps_of(entry) ==
    compute_deps(CfgNodes(entry), entry,
                 [ts |-> ts_new(entry), processed |-> {}, panic |-> FALSE])

RECURSIVE pop_loop_unsorted(_, _)
\* pop_loop without `v.sort()`: the popped elements in an order the sort's
\* hash map may yield
pop_loop_unsorted(ts, sorted) ==
    LET v == pop_all(ts)
    IN  IF v = {}
        THEN [sorted |-> sorted, cycle |-> ts.nodes # {}, rest |-> ts]
        ELSE pop_loop_unsorted(ts_after_pop(ts), sorted \o Reverse(SortAsc(v)))

RECURSIVE pop_loop(_, _)
\* the loop of topo_sort: pop the ready elements, sort them, extend sorted
pop_loop(ts, sorted) ==
    LET v == pop_all(ts)
    IN  IF v = {}
        THEN [sorted |-> sorted, cycle |-> ts.nodes # {}, rest |-> ts]
        ELSE pop_loop(ts_after_pop(ts), sorted \o SortAsc(v))

\* topo_sort that takes an exhausted sort for a finished one
topo_sort_unchecked(entry) ==
    LET deps == deps_of(entry)
    IN  IF deps.panic
        THEN [sorted |-> << >>, cycle |-> FALSE, rest |-> deps.ts, panic |-> TRUE]
        ELSE [panic |-> FALSE, cycle |-> FALSE] @@ pop_loop(deps.ts, << >>)

\* Translator::topo_sort: the sorted addresses, or a cycle
topo_sort(entry) ==
    LET deps == deps_of(entry)
    IN  IF deps.panic
        THEN [sorted |-> << >>, cycle |-> FALSE, rest |-> deps.ts, panic |-> TRUE]
        ELSE [panic |-> FALSE] @@ pop_loop(deps.ts, << >>)

\* S is the block set of a simple cycle of the edges
IsCycle(S, edges) ==
    \E f \in [S -> S] :
        /\ \A n \in S : << n, f[n] >> \in edges
        /\ \A T \in SUBSET S : (T # {} /\ { f[n] : n \in T } \subseteq T) => T = S

\* cfg::Cfg::find_cycle: the cycles it may report
find_cycle(entry) ==
    LET rest == topo_sort(entry).rest
    IN  { S \in SUBSET rest.nodes : S # {} /\ IsCycle(S, rest.edges) }

-----------------------------------------------------------------------------
(* Translator::cfg_to_symbolic_blk and Translator::guarded_call *)

\* guarded_call whose guard leaves out `returned == 0`
guarded_call_pc_only(entry, blk) ==
    if_then_else(op_app(CompOp("Equality"), << pc_var, bv_lit(entry, XLEN) >>),
                 blk, NoStmt)

\* Translator::guarded_call
guarded_call(entry, blk) ==
    if_then_else(
        op_app(BoolOp("Conj"),
               << op_app(CompOp("Equality"), << pc_var, bv_lit(entry, XLEN) >>),
                  op_app(CompOp("Equality"), << returned_var, bv_lit(0, 1) >>) >>),
        blk, NoStmt)

\* the statements cfg_to_symbolic_blk pushes for one sorted entry
blk_stmts_for(func_entry, nodes, bb_entry) ==
    IF bbs[bb_entry].is_label_entry /\ bb_entry # func_entry THEN << >>
    ELSE << guarded_call(bb_entry,
                Block(<< func_call(bb_proc_name(bb_entry), << >>, << >>) >>)) >>
         \o (IF bbs[bb_entry].op = JAL /\ bbs[bb_entry].imm # NoAddr
                /\ bbs[bbs[bb_entry].imm].is_label_entry
             THEN << guarded_call(bbs[bb_entry].imm,
                        Block(<< func_call(get_func_at(bbs[bb_entry].imm), << >>,
                                    [i \in DOMAIN func_args(get_func_at(bbs[bb_entry].imm)) |->
                                        var(ArgRegNames[i],
                                            func_args(get_func_at(bbs[bb_entry].imm))[i].typ)]),
                                 Assign(<< returned_var >>, << bv_lit(0, 1) >>) >>)) >>
             ELSE << >>)

\* a jal exit whose immediate is missing or whose target is not a node
blk_panics(nodes, bb_entry) ==
    \/ bb_entry \notin nodes
    \/ bbs[bb_entry].op = JAL
       /\ (bbs[bb_entry].imm = NoAddr \/ bbs[bb_entry].imm \notin nodes)

RECURSIVE blk_stmts(_, _, _, _)
\* the loop of cfg_to_symbolic_blk over the sorted entries from index i on
blk_stmts(func_entry, nodes, sorted, i) ==
    IF i > Len(sorted) THEN << >>
    ELSE blk_stmts_for(func_entry, nodes, sorted[i])
         \o blk_stmts(func_entry, nodes, sorted, i + 1)

\* Translator::cfg_to_symbolic_blk on an acyclic dependency graph
cfg_to_symbolic_blk(func_entry) ==
    Block(blk_stmts(func_entry, CfgNodes(func_entry), topo_sort(func_entry).sorted, 1)
          \o << Assign(<< returned_var >>, << bv_lit(1, 1) >>) >>)

-----------------------------------------------------------------------------
(* Basic-block bodies: Translator::cfg_node_to_block over the instruction   *)
(* statements of the system model                                           *)

\* the instructions ahead of the exit instruction, by kind of block
PayloadStmts(kind) ==
    CASE kind = "addi" ->
            << Assign(<< reg("a0") >>,
                      << op_app(BVOp("Add"), << reg("a0"), bv_lit(1, XLEN) >>) >>) >>
      [] kind = "store" ->
            << Assign(<< reg("t0") >>, << bv_lit(4, XLEN) >>),
               Assign(<< op_app(ArrayIndexOp,
                                << mem_var(MEM_VAR_D, 8),
                                   op_app(BVOp("Add"), << reg("t0"), bv_lit(8, XLEN) >>) >>) >>,
                      << reg("a1") >>) >>
      [] kind = "load" ->
            << Assign(<< reg("a2") >>,
                      << op_app(ArrayIndexOp, << mem_var(MEM_VAR_W, 4), reg("sp") >>) >>) >>

PayloadRegs(kind) ==
    CASE kind = "addi" -> {"a0"}
      [] kind = "store" -> {"t0", "a1"}
      [] kind = "load" -> {"a2", "sp"}

PayloadKinds == << "addi", "store", "load" >>

\* the statements of the exit instruction of block b
ExitStmts(b) ==
    CASE bbs[b].op = JAL ->
            << Assign(<< reg("ra") >>,
                      << op_app(BVOp("Add"), << pc_var, bv_lit(4, XLEN) >>) >>),
               Assign(<< pc_var >>, << bv_lit(bbs[b].imm, XLEN) >>) >>
      [] bbs[b].op = "beq" ->
            << if_then_else(op_app(CompOp("Equality"), << reg("a0"), reg("a1") >>),
                            Assign(<< pc_var >>, << bv_lit(bbs[b].imm, XLEN) >>),
                            Assign(<< pc_var >>,
                                   << op_app(BVOp("Add"), << pc_var, bv_lit(4, XLEN) >>) >>)) >>
      [] bbs[b].op = "jalr" -> << Assign(<< pc_var >>, << reg("ra") >>) >>
      [] OTHER ->
            << Assign(<< pc_var >>,
                      << op_app(BVOp("Add"), << pc_var, bv_lit(4, XLEN) >>) >>) >>

ExitRegs(b) ==
    CASE bbs[b].op = JAL -> {"ra"}
      [] bbs[b].op = "beq" -> {"a0", "a1"}
      [] bbs[b].op = "jalr" -> {"ra"}
      [] OTHER -> {}

\* Translator::cfg_node_to_block
cfg_node_to_block(b) == Block(PayloadStmts(bbs[b].insts) \o ExitStmts(b))

\* Translator::infer_vars over the nodes of a Cfg
infer_vars(nodes) ==
    { [name |-> r, typ |-> BvType(XLEN)] :
        r \in UNION { PayloadRegs(bbs[b].insts) \cup ExitRegs(b) : b \in nodes } }

-----------------------------------------------------------------------------
(* FuncModel and Model (veriv_ast.rs:670-794) *)

\* Translator::filter_from_spec_map for one kind of Spec; << >> for None
\* as FuncModel::new unwraps it
filter_from_spec_map(func_name, kind) ==
    IF func_name \in DOMAIN specs_map
    THEN SelectSeq(specs_map[func_name], LAMBDA sp : sp.kind = kind)
    ELSE << >>

\* `None` for the return type of a signature
NoRetDecl == [t |-> "None"]

\* FuncModel::new
FuncModel_new(name, entry_addr, arg_decls, ret_decl, requires, ensures, tracked, mod_set, body, inline) ==
    [name |-> name, entry_addr |-> entry_addr, arg_decls |-> arg_decls,
     ret_decl |-> ret_decl, requires |-> requires, ensures |-> ensures, tracked |-> tracked,
     mod_set |-> IF mod_set = NoSpec THEN {} ELSE mod_set,
     body |-> body, inline |-> inline]

\* add_func_model that pushes the model whatever names are present
add_func_model_always(fms, fm) == Append(fms, fm)

\* Model::add_func_model: the first model of a name wins
add_func_model(fms, fm) ==
    IF \E i \in DOMAIN fms : fms[i].name = fm.name THEN fms ELSE Append(fms, fm)

RECURSIVE add_func_models(_, _)
\* Model::add_func_models
add_func_models(fms, new) ==
    IF new = << >> THEN fms
    ELSE add_func_models(add_func_model(fms, Head(new)), Tail(new))

\* the model of name in the Model, if any
HasModel(name) == \E i \in DOMAIN func_models : func_models[i].name = name
ModelOf(name) ==
    func_models[CHOOSE i \in DOMAIN func_models : func_models[i].name = name]

\* the body of a basic block after the two passes (gen_func_model:259-264)
processed_body(b) == DMA_visit_stmt(ConstantPropagate(cfg_node_to_block(b)))
\* the variables the second pass abstracts (gen_func_model:263-265)
abs_var_names(b) == DMA_stmt_vars(ConstantPropagate(cfg_node_to_block(b)))
\* a pass panics on the block
bb_panics(b) ==
    LET panics(propagated) ==
            StmtPanics(propagated) \/ StmtPanics(DMA_visit_stmt(propagated))
    IN  panics(ConstantPropagate(cfg_node_to_block(b)))

\* bb_func_model with the modifies set inferred from the block as translated,
\* ahead of the two passes
bb_func_model_unprocessed(b) ==
    FuncModel_new(bb_proc_name(b), b, << >>, NoRetDecl, << >>, << >>, << >>,
                  infer_mod_set(cfg_node_to_block(b)), processed_body(b), TRUE)

\* the FuncModel of a basic block (gen_func_model:258-279)
bb_func_model(b) ==
    LET model(body) ==
            FuncModel_new(bb_proc_name(b), b, << >>, NoRetDecl, << >>, << >>, << >>,
                          infer_mod_set(body), body, TRUE)
    IN  model(processed_body(b))

\* a stub that leaves the Modifies specifications of the function out
gen_func_model_stub_no_mod_set(func_name) ==
    FuncModel_new(func_name, func_entry_addr(func_name), arg_exprs(func_name),
                  NoRetDecl, << >>, << >>, << >>, NoSpec, Block(<< >>), FALSE)

\* Translator::gen_func_model_stub
gen_func_model_stub(func_name) ==
    FuncModel_new(func_name, func_entry_addr(func_name), arg_exprs(func_name),
                  NoRetDecl,
                  IF ignore_specs THEN << >> ELSE filter_from_spec_map(func_name, "Requires"),
                  IF ignore_specs THEN << >> ELSE filter_from_spec_map(func_name, "Ensures"),
                  filter_from_spec_map(func_name, "Track"),
                  mod_set_from_spec_map(func_name), Block(<< >>), FALSE)

-----------------------------------------------------------------------------
(* Translator::gen_func_model (translator.rs:225-370) as steps of a call    *)
(* stack: the prologue up to the callee list, one step per callee of the    *)
(* recursion loop, and the epilogue                                         *)

NoErr == [kind |-> "none", func_name |-> NoName, cycle |-> {}]
Panic(kind, func_name, cycle) == [kind |-> kind, func_name |-> func_name, cycle |-> cycle]

Top == stack[Len(stack)]
Below == SubSeq(stack, 1, Len(stack) - 1)

\* the orders in which the node map of a Cfg may iterate
NodeOrders(addr) ==
    IF addr \in DOMAIN cfg_memo THEN { cfg_memo[addr] }
    ELSE { SortAsc(CfgNodes(addr)), Reverse(SortAsc(CfgNodes(addr))) }

\* mod_set_map after the basic-block mod sets are inserted (285-291)
with_bb_mod_sets(bb_fms) ==
    [n \in (DOMAIN mod_set_map) \cup { bb_fms[i].name : i \in DOMAIN bb_fms } |->
        IF \E i \in DOMAIN bb_fms : bb_fms[i].name = n
        THEN bb_fms[CHOOSE i \in DOMAIN bb_fms : bb_fms[i].name = n].mod_set
        ELSE mod_set_map[n]]

\* control returns to the caller whose stack is rest
ReturnTo(rest) ==
    /\ stack' = rest
    /\ status' = IF rest = << >> THEN "idle" ELSE "running"

\* a test of the generated set that finds no entry in it
is_generated_never(func_entry) == FALSE

\* `self.generated.get(&func_entry).is_some()` (gen_func_model:230)
is_generated(func_entry) == func_entry \in generated

\* lines 225-302 of gen_func_model(func_name), called with the stack rest
gen_func_model_begin(func_name, rest) ==
    LET func_entry == func_entry_addr(func_name)
    IN  IF func_entry = NoAddr
        THEN /\ status' = "panic"
             /\ err' = Panic("NoEntryAddress", func_name, {})
             /\ stack' = rest
             /\ UNCHANGED << generated, cfg_memo, mod_set_map, func_models,
                             model_vars, builds >>
        ELSE IF is_generated(func_entry)
        THEN /\ ReturnTo(rest)
             /\ UNCHANGED << generated, cfg_memo, mod_set_map, func_models,
                             model_vars, builds, err >>
        ELSE IF func_name \in ignored_funcs
        THEN /\ generated' = generated \cup {func_entry}
             /\ builds' = [builds EXCEPT ![func_entry] = @ + 1]
             /\ func_models' = add_func_model(func_models, gen_func_model_stub(func_name))
             /\ ReturnTo(rest)
             /\ UNCHANGED << cfg_memo, mod_set_map, model_vars, err >>
        ELSE \E order \in NodeOrders(func_entry) :
             \E bb_fms \in { [i \in DOMAIN order |-> bb_func_model(order[i])] } :
             /\ generated' = generated \cup {func_entry}
             /\ builds' = [builds EXCEPT ![func_entry] = @ + 1]
             /\ cfg_memo' = Put(cfg_memo, func_entry, order)
             /\ IF \E b \in Range(order) : bb_panics(b)
                THEN /\ status' = "panic"
                     /\ err' = Panic("RewritePanic", func_name, {})
                     /\ stack' = rest
                     /\ UNCHANGED << mod_set_map, func_models, model_vars >>
                ELSE /\ model_vars' = model_vars \cup infer_vars(Range(order))
                                      \cup UNION { abs_var_names(b) : b \in Range(order) }
                     /\ mod_set_map' = with_bb_mod_sets(bb_fms)
                     /\ func_models' = add_func_models(func_models, bb_fms)
                     /\ stack' = Append(rest,
                            [func_name |-> func_name, func_entry |-> func_entry,
                             mod_set |-> UNION { bb_fms[i].mod_set : i \in DOMAIN bb_fms },
                             callees |-> get_callee_addrs(func_name, order),
                             idx |-> 1])
                     /\ status' = "running"
                     /\ err' = err

\* callee_mod_set that looks a translated callee up in mod_set_map
callee_mod_set_lookup(func_name, target) ==
    IF get_func_at(target) = NoName THEN {}
    ELSE IF get_func_at(target) \in ignored_funcs
         THEN (IF mod_set_from_spec_map(get_func_at(target)) # NoSpec
               THEN mod_set_from_spec_map(get_func_at(target))
               ELSE {})
         ELSE (IF get_func_at(target) \in DOMAIN mod_set_map
               THEN mod_set_map[get_func_at(target)]
               ELSE {ModSetPanic})

\* what one callee adds to the modifies set of func_name (lines 310-327)
callee_mod_set(func_name, target) ==
    IF get_func_at(target) = NoName THEN {}
    ELSE IF get_func_at(target) \notin ignored_funcs THEN {}
    ELSE IF get_func_at(target) \in ignored_funcs
         THEN (IF mod_set_from_spec_map(func_name) # NoSpec
               THEN mod_set_from_spec_map(func_name)
               ELSE {})
         ELSE (IF get_func_at(target) \in DOMAIN mod_set_map
               THEN mod_set_map[get_func_at(target)]
               ELSE {ModSetPanic})

\* the modifies set of the function once the loop of lines 309-328 has run
final_mod_set(frame) ==
    frame.mod_set
    \cup UNION { callee_mod_set(frame.func_name, frame.callees[i]) :
                   i \in DOMAIN frame.callees }

\* the FuncModel added for a translated function (lines 335-369)
gen_func_model_result(frame) ==
    FuncModel_new(frame.func_name, frame.func_entry, arg_exprs(frame.func_name),
                  NoRetDecl,
                  IF ignore_specs THEN << >>
                  ELSE filter_from_spec_map(frame.func_name, "Requires"),
                  IF ignore_specs THEN << >>
                  ELSE filter_from_spec_map(frame.func_name, "Ensures"),
                  filter_from_spec_map(frame.func_name, "Track"),
                  final_mod_set(frame),
                  cfg_to_symbolic_blk(frame.func_entry),
                  ignore_specs)

\* the driver's loop: translator.gen_func_model(&func_name) (lib.rs:155-157)
Invoke(func_name) ==
    /\ status = "idle"
    /\ stack = << >>
    /\ calls < MaxCalls
    /\ calls' = calls + 1
    /\ last_call' = func_name
    /\ gen_func_model_begin(func_name, << >>)
    /\ UNCHANGED << bbs, ignored_funcs, specs_map, ignore_specs, overflow_checks,
                    sl_vars, emit_vars, vir_vars >>

\* one iteration of the loop over the callees (lines 303-307)
RecurseCallee ==
    /\ status = "running"
    /\ stack # << >>
    /\ Top.idx <= Len(Top.callees)
    /\ IF get_func_at(Top.callees[Top.idx]) # NoName
       THEN gen_func_model_begin(get_func_at(Top.callees[Top.idx]),
                                 Append(Below, [Top EXCEPT !.idx = @ + 1]))
       ELSE /\ stack' = Append(Below, [Top EXCEPT !.idx = @ + 1])
            /\ UNCHANGED << generated, cfg_memo, mod_set_map, func_models,
                            model_vars, builds, err, status >>
    /\ UNCHANGED << bbs, ignored_funcs, specs_map, ignore_specs, calls, last_call,
                    overflow_checks, sl_vars, emit_vars, vir_vars >>

\* lines 308-369: the union of the callee mod sets, the memo of the mod
\* set, the dispatch body and the function's model
Finish ==
    /\ status = "running"
    /\ stack # << >>
    /\ Top.idx > Len(Top.callees)
    /\ IF ModSetPanic \in final_mod_set(Top)
       THEN /\ status' = "panic"
            /\ err' = Panic("NoModSet", Top.func_name, {})
            /\ UNCHANGED << mod_set_map, func_models, stack >>
       ELSE
       /\ mod_set_map' = Put(mod_set_map, Top.func_name, final_mod_set(Top))
       /\ LET sort == topo_sort(Top.func_entry)
          IN  IF sort.panic
              THEN /\ status' = "panic"
                   /\ err' = Panic("NoCfgNode", Top.func_name, {})
                   /\ UNCHANGED << func_models, stack >>
              ELSE IF sort.cycle
              THEN /\ status' = "panic"
                   /\ IF find_cycle(Top.func_entry) = {}
                      THEN err' = Panic("NoCycleFound", Top.func_name, {})
                      ELSE \E S \in find_cycle(Top.func_entry) :
                              err' = Panic("CycleInCFG", Top.func_name, S)
                   /\ UNCHANGED << func_models, stack >>
              ELSE IF \E b \in Range(sort.sorted) :
                         blk_panics(CfgNodes(Top.func_entry), b)
              THEN /\ status' = "panic"
                   /\ err' = Panic("NoCfgNode", Top.func_name, {})
                   /\ UNCHANGED << func_models, stack >>
              ELSE /\ func_models' = add_func_model(func_models, gen_func_model_result(Top))
                   /\ ReturnTo(Below)
                   /\ err' = err
    /\ UNCHANGED << bbs, ignored_funcs, specs_map, ignore_specs, generated, cfg_memo,
                    model_vars, builds, calls, last_call, overflow_checks, sl_vars,
                    emit_vars, vir_vars >>

-----------------------------------------------------------------------------
(* The binaries, ignore sets and specification maps the builder is run on *)

\* number of blocks of a binary that end in a branch or a jal
MaxBranches == 1

Max(S) == CHOOSE x \in S : \A y \in S : y <= x

\* the exit instructions block b may end in, with their successors
ExitChoices(b) ==
    { [op |-> "jalr", imm |-> NoAddr, successors |-> << >>] }
    \cup (IF b < MaxBlocks
          THEN { [op |-> "addi", imm |-> NoAddr, successors |-> << b + 1 >>] }
               \cup { [op |-> JAL, imm |-> t, successors |-> << t, b + 1 >>] : t \in Addrs }
               \cup { [op |-> "beq", imm |-> t, successors |-> << t, b + 1 >>] :
                        t \in Addrs \ {b + 1} }
          ELSE { [op |-> "beq", imm |-> t, successors |-> << t >>] : t \in Addrs })
    \cup { [op |-> JAL, imm |-> t, successors |-> << t >>] : t \in Addrs }

\* the basic blocks of a binary whose labels sit at the addresses labels
MkBlocks(labels, exits) ==
    [b \in Addrs |->
        [is_label_entry |-> b \in labels,
         function_name |-> LabelNames[Max({ l \in labels : l <= b })],
         op |-> exits[b].op, imm |-> exits[b].imm, successors |-> exits[b].successors,
         insts |-> PayloadKinds[((b - 1) % Len(PayloadKinds)) + 1]]]

\* number of blocks that call a function in a binary of two functions
MaxCallSites == 2

\* the exits of a block that returns, falls through or calls a function and
\* comes back to the next block
CallChoices(b) ==
    { x \in ExitChoices(b) :
        /\ x.op # "beq"
        /\ x.op = JAL => (x.imm \in {1, SecondLabel}
                          /\ (b < MaxBlocks => Len(x.successors) = 2)) }

IsBranch(x) == x.op \in {JAL, "beq"}

RECURSIVE ExitMaps(_, _, _)
\* the exits of the blocks b..MaxBlocks, of which at most budget end in a
\* branch or a jal: any exit (calls_only FALSE), or a return, a fall
\* through or a call (calls_only TRUE)
ExitMaps(calls_only, b, budget) ==
    IF b > MaxBlocks THEN { << >> }
    ELSE UNION { { << x >> \o rest :
                     rest \in ExitMaps(calls_only, b + 1,
                                       IF IsBranch(x) THEN budget - 1 ELSE budget) } :
                 x \in { y \in IF calls_only THEN CallChoices(b) ELSE ExitChoices(b) :
                           IsBranch(y) => budget > 0 } }

\* the specifications declared for a function
DeclaredSpecs ==
    << [kind |-> "Modifies", vars |-> {"gv"}],
       [kind |-> "Requires", bexpr |-> "pre"],
       [kind |-> "Track", bexpr |-> "trk"],
       [kind |-> "Ensures", bexpr |-> "post"],
       [kind |-> "Modifies", vars |-> {"gv", "gw"}],
       [kind |-> "Ensures", bexpr |-> "post2"] >>

NoBExpr == [b |-> "None"]

InitBuilderContext ==
    /\ generated = {}
    /\ cfg_memo = EmptyMap
    /\ mod_set_map = EmptyMap
    /\ func_models = << >>
    /\ model_vars = {}
    /\ stack = << >>
    /\ status = "idle"
    /\ err = NoErr
    /\ calls = 0
    /\ builds = [a \in Addrs |-> 0]
    /\ last_call = NoName

\* no module is written while the builder and the passes run
NoOutput == [module |-> "None"]

InitEmitIdle ==
    /\ dwarf_globals = << >>
    /\ model_str = NoOutput

\* no basic-block body is handed to the rewriters on their own
InitVirIdle ==
    /\ cp_input = << >>
    /\ cp_ctx = << >>
    /\ cp_stmts = << >>
    /\ dma_body = NoStmt
    /\ dma_vars = {}
    /\ vir_phase = "none"

InitSlIdle ==
    /\ sl_fname = NoName
    /\ sl_input = NoBExpr
    /\ sl_bexpr = NoBExpr
    /\ sl_prev = NoBExpr
    /\ sl_passes = << >>

\* a binary of one function, without ignored functions
InitShapes ==
    /\ \E exits \in ExitMaps(FALSE, 1, MaxBranches) : bbs = MkBlocks({1}, exits)
    /\ ignored_funcs = {}
    /\ \E holders \in SUBSET {LabelNames[1]} : specs_map = [n \in holders |-> DeclaredSpecs]
    /\ ignore_specs = FALSE

\* a binary of two functions, the second of which may be ignored
InitCalls ==
    /\ \E exits \in ExitMaps(TRUE, 1, MaxCallSites) :
          bbs = MkBlocks({1, SecondLabel}, exits)
    /\ ignored_funcs \in { {}, {LabelNames[SecondLabel]} }
    /\ \E holders \in SUBSET {LabelNames[1], LabelNames[SecondLabel]} :
          /\ specs_map = [n \in holders |-> DeclaredSpecs]
          /\ ignore_specs \in IF Cardinality(holders) = 2 THEN BOOLEAN ELSE {FALSE}

Init ==
    /\ InitShapes \/ InitCalls
    /\ overflow_checks = TRUE
    /\ InitBuilderContext
    /\ InitSlIdle
    /\ InitEmitIdle
    /\ InitVirIdle

FuncNames == { bbs[b].function_name : b \in DOMAIN bbs } \cup {NoSuchFunc}

Next ==
    \/ \E func_name \in FuncNames : Invoke(func_name)
    \/ RecurseCallee
    \/ Finish

Spec == Init /\ [][Next]_vars

-----------------------------------------------------------------------------
(* Properties of the builder *)

RECURSIVE FuncCallsIn(_)
\* the names of the procedures called by the FuncCall statements of stmt
FuncCallsIn(stmt) ==
    CASE stmt.s = "FuncCall" -> {stmt.func_name}
      [] stmt.s = "IfThenElse" ->
            FuncCallsIn(stmt.then_stmt)
            \cup (IF stmt.else_stmt = NoStmt THEN {} ELSE FuncCallsIn(stmt.else_stmt))
      [] stmt.s = "Block" -> UNION { FuncCallsIn(stmt.stmts[i]) : i \in DOMAIN stmt.stmts }
      [] OTHER -> {}

\* the base name of a left-hand side: the variable's name, or the name of
\* the array variable of an array access
LhsBaseName(e) == IF e.e = "Var" THEN e.name ELSE e.operands[1].name

RECURSIVE AssignedIn(_)
\* the base names of the left-hand sides of the Assign statements of stmt
AssignedIn(stmt) ==
    CASE stmt.s = "Assign" -> { LhsBaseName(stmt.lhs[i]) : i \in DOMAIN stmt.lhs }
      [] stmt.s = "IfThenElse" ->
            AssignedIn(stmt.then_stmt)
            \cup (IF stmt.else_stmt = NoStmt THEN {} ELSE AssignedIn(stmt.else_stmt))
      [] stmt.s = "Block" -> UNION { AssignedIn(stmt.stmts[i]) : i \in DOMAIN stmt.stmts }
      [] OTHER -> {}

IsBbName(name) == \E b \in Addrs : BbNames[b] = name
AddrOfBb(name) == CHOOSE b \in Addrs : BbNames[b] = name

\* the models of the translated (non-ignored) functions built so far
TranslatedModels ==
    { fm \in Range(func_models) : ~IsBbName(fm.name) /\ fm.name \notin ignored_funcs }
\* the models of the basic-block procedures built so far
BbModels == { fm \in Range(func_models) : IsBbName(fm.name) }

\* the functions a translated function calls by jal
JalCallees(fm) ==
    { bbs[bbs[b].imm].function_name :
        b \in { c \in CfgNodes(fm.entry_addr) :
                  /\ bbs[c].function_name = fm.name
                  /\ bbs[c].op = JAL
                  /\ bbs[bbs[c].imm].is_label_entry } }

\* C1: once the model of a translated function f is built, the modifies set
\* of every procedure called in f's body (basic-block procedures and callee
\* functions) is a subset of f's modifies set.
C1_CalleeModSetsIncluded ==
    \A fm \in TranslatedModels :
        \A c \in FuncCallsIn(fm.body) :
            HasModel(c) => ModelOf(c).mod_set \subseteq fm.mod_set

\* C2: if a translated function f calls by jal an ignored function g whose
\* specification declares Modifies(S), the modifies set of f's model holds
\* pc, returned, every element of S and every name f's blocks write.
C2_IgnoredCalleeModifies ==
    \A fm \in TranslatedModels :
        \A g \in JalCallees(fm) :
            (g \in ignored_funcs /\ mod_set_from_spec_map(g) # NoSpec)
            => ({PC_VAR, RETURNED_FLAG}
                \cup mod_set_from_spec_map(g)
                \cup UNION { AssignedIn(ModelOf(BbNames[b]).body) :
                               b \in { c \in CfgNodes(fm.entry_addr) :
                                         bbs[c].function_name = fm.name } })
               \subseteq fm.mod_set

\* C3: every left-hand side base name of an Assign of a basic-block
\* procedure or of a function's dispatch body is in the modifies set of that
\* procedure, and in the modifies set of every function whose Cfg holds the
\* block; pc and returned are in all of these modifies sets.
C3_AssignedNamesInModSet ==
    /\ \A fm \in BbModels \cup TranslatedModels :
          AssignedIn(fm.body) \cup {PC_VAR, RETURNED_FLAG} \subseteq fm.mod_set
    /\ \A fm \in TranslatedModels :
          \A b \in CfgNodes(fm.entry_addr) :
             AssignedIn(ModelOf(BbNames[b]).body) \subseteq fm.mod_set

\* C3 witness: a built function one of whose blocks stores to a constant
\* address (the store names the abstracted variable) and another of whose
\* blocks assigns inside a conditional
C3_Witness ==
    \E fm \in TranslatedModels :
        /\ \E b \in CfgNodes(fm.entry_addr) :
              abs_access_name(12) \in AssignedIn(ModelOf(BbNames[b]).body)
        /\ \E b \in CfgNodes(fm.entry_addr) :
              \E i \in DOMAIN ModelOf(BbNames[b]).body.stmts :
                 ModelOf(BbNames[b]).body.stmts[i].s = "IfThenElse"

\* the guard of a dispatched call: pc == entry /\ returned == 0
GuardOf(entry) ==
    [e |-> "OpApp", op |-> [o |-> "Bool", f |-> "Conj"], typ |-> [t |-> "Bool"],
     operands |->
        << [e |-> "OpApp", op |-> [o |-> "Comp", f |-> "Equality"], typ |-> [t |-> "Bool"],
            operands |-> << [e |-> "Var", name |-> "pc", typ |-> [t |-> "Bv", w |-> XLEN]],
                            [e |-> "Literal", lit |-> "Bv", val |-> entry, width |-> XLEN,
                             typ |-> [t |-> "Bv", w |-> XLEN]] >>],
           [e |-> "OpApp", op |-> [o |-> "Comp", f |-> "Equality"], typ |-> [t |-> "Bool"],
            operands |-> << [e |-> "Var", name |-> "returned", typ |-> [t |-> "Bv", w |-> 1]],
                            [e |-> "Literal", lit |-> "Bv", val |-> 0, width |-> 1,
                             typ |-> [t |-> "Bv", w |-> 1]] >>] >>]

\* the entry address of a called procedure
EntryOfProc(name) == IF IsBbName(name) THEN AddrOfBb(name) ELSE func_entry_addr(name)

\* stmt is `if (pc == entry(p) && returned == 0) { call p; ... }` for its
\* only call p
IsGuardedCall(stmt) ==
    /\ stmt.s = "IfThenElse"
    /\ stmt.else_stmt = NoStmt
    /\ stmt.then_stmt.s = "Block"
    /\ stmt.then_stmt.stmts # << >>
    /\ stmt.then_stmt.stmts[1].s = "FuncCall"
    /\ FuncCallsIn(stmt) = { stmt.then_stmt.stmts[1].func_name }
    /\ \A i \in 2..Len(stmt.then_stmt.stmts) : FuncCallsIn(stmt.then_stmt.stmts[i]) = {}
    /\ stmt.cond = GuardOf(EntryOfProc(stmt.then_stmt.stmts[1].func_name))

\* the addresses of the basic blocks a dispatch body calls, in body order
BbOrder(body) ==
    LET calls_bb == SelectSeq(body.stmts,
                        LAMBDA st : st.s = "IfThenElse" /\ st.then_stmt.s = "Block"
                                    /\ st.then_stmt.stmts # << >>
                                    /\ st.then_stmt.stmts[1].s = "FuncCall"
                                    /\ IsBbName(st.then_stmt.stmts[1].func_name))
    IN  [i \in DOMAIN calls_bb |-> AddrOfBb(calls_bb[i].then_stmt.stmts[1].func_name)]

\* the position of block b in the order
PosIn(order, b) == CHOOSE i \in DOMAIN order : order[i] = b

\* the blocks whose successors the dependency graph of the function entered
\* at entry records: the entry and the blocks reached from it without
\* passing through a label entry or leaving an ignored function's entry
RECURSIVE DepSources(_, _)
DepSources(entry, seen) ==
    LET more == { t \in Addrs : \E n \in seen :
                     /\ ~ignore(n)
                     /\ t \in Range(bbs[n].successors)
                     /\ ~bbs[t].is_label_entry } \ seen
    IN  IF more = {} THEN seen ELSE DepSources(entry, seen \cup more)

\* the edges of that dependency graph
DepEdges(entry) ==
    LET sources == { n \in DepSources(entry, {entry}) : ~ignore(n) }
    IN  UNION { { << n, t >> : t \in Range(bbs[n].successors) } : n \in sources }

RECURSIVE PathsFrom(_, _)
\* the blocks reachable from the set S by one or more edges of E
PathsFrom(S, E) ==
    LET next == { e[2] : e \in { x \in E : x[1] \in S } }
    IN  IF next \subseteq S THEN next ELSE next \cup PathsFrom(S \cup next, E)

Reaches(a, b, E) == b \in PathsFrom({a}, E)
HasCycle(E) == \E e \in E : Reaches(e[1], e[1], E)

RECURSIVE LayerMap(_, _, _)
\* after k rounds over the acyclic graph E, lay[n] is the length of the
\* longest path of at most k edges that ends in n
LayerMap(E, lay, k) ==
    IF k = 0 THEN lay
    ELSE LayerMap(E,
                  [n \in Addrs |-> Max({0} \cup { lay[e[1]] + 1 : e \in { x \in E : x[2] = n } })],
                  k - 1)

\* the length of the longest path of E that ends in each block
Layers(E) == LayerMap(E, [n \in Addrs |-> 0], MaxBlocks)

\* C4 as stated: in the dispatch body of a built function, A's call comes
\* before B's for every edge A -> B between called blocks, and two called
\* blocks that no path orders appear in ascending address order.
C4_EdgeOrderAndAscending ==
    \A fm \in TranslatedModels :
        LET order == BbOrder(fm.body)
            E == DepEdges(fm.entry_addr)
        IN  \A a, b \in Range(order) :
               /\ (b \in Range(bbs[a].successors)) => PosIn(order, a) < PosIn(order, b)
               /\ (a < b /\ ~Reaches(a, b, E) /\ ~Reaches(b, a, E))
                  => PosIn(order, a) < PosIn(order, b)

\* C4 amended: A's call comes before B's for every edge A -> B between
\* called blocks; the calls are ordered by the length of the longest path
\* that reaches the block, and blocks at the same length appear in ascending
\* address order.
C4_EdgeOrderAndLayers ==
    \A fm \in TranslatedModels :
        LET order == BbOrder(fm.body)
            lay == Layers(DepEdges(fm.entry_addr))
        IN  \A a, b \in Range(order) :
               /\ (b \in Range(bbs[a].successors)) => PosIn(order, a) < PosIn(order, b)
               /\ (lay[a] < lay[b] \/ (lay[a] = lay[b] /\ a < b))
                  => PosIn(order, a) < PosIn(order, b)

\* C4 witness: a built function whose body calls two blocks of one layer,
\* in ascending order, ahead of a block of lower address of a later layer
C4_Witness ==
    \E fm \in TranslatedModels :
        LET order == BbOrder(fm.body)
            lay == Layers(DepEdges(fm.entry_addr))
        IN  \E a, b, c \in Range(order) :
               /\ a < b /\ c < b
               /\ lay[a] = lay[b] /\ lay[c] > lay[b]
               /\ PosIn(order, a) < PosIn(order, b)
               /\ PosIn(order, b) < PosIn(order, c)

\* C5: in the body of every built function each statement that holds a
\* call is an IfThenElse without else branch whose condition is
\* pc == entry /\ returned == 0 for the entry of the one procedure it calls,
\* the call being the first statement of the then block.
C5_CallsAreGuarded ==
    \A fm \in TranslatedModels :
        \A i \in DOMAIN fm.body.stmts :
            FuncCallsIn(fm.body.stmts[i]) # {} => IsGuardedCall(fm.body.stmts[i])

\* C5 witness: a built function whose body calls a basic-block procedure
\* and a callee function
C5_Witness ==
    \E fm \in TranslatedModels :
        /\ \E c \in FuncCallsIn(fm.body) : IsBbName(c)
        /\ \E c \in FuncCallsIn(fm.body) : ~IsBbName(c)

\* the edges of the CFG reachable from entry, the subgraphs entered at an
\* ignored function's entry pruned
CfgEdges(entry) ==
    UNION { { << n, t >> : t \in Range(bbs[n].successors) } :
            n \in { m \in CfgNodes(entry) : ~ignore(m) } }

\* the edges of E reachable from entry
ReachableEdges(entry, E) ==
    { e \in E : e[1] = entry \/ Reaches(entry, e[1], E) }

\* the translated functions of the binary, by entry address
TranslatedEntries ==
    { a \in Addrs : bbs[a].is_label_entry /\ bbs[a].function_name \notin ignored_funcs }

\* the build of the function entered at a has failed in its own epilogue
\* (lines 308-369)
BuildFailed(a) ==
    /\ status = "panic"
    /\ stack # << >>
    /\ Top.func_entry = a
    /\ Top.idx > Len(Top.callees)
    /\ err.func_name = bbs[a].function_name

\* S is the block set of cycles of E: inside S every block reaches itself
CycleBlocks(S, E) ==
    S # {} /\ \A n \in S : Reaches(n, n, { e \in E : e[1] \in S /\ e[2] \in S })

\* C6 as stated: a translated function whose reachable CFG (ignored
\* subgraphs pruned) has a cycle gets no FuncModel, and its epilogue fails
\* with a cycle error.
C6_CfgCycleFailsBuild ==
    \A a \in TranslatedEntries :
        HasCycle(ReachableEdges(a, CfgEdges(a)))
        => /\ ~HasModel(bbs[a].function_name)
           /\ BuildFailed(a) => err.kind = "CycleInCFG"

\* C6 amended: a translated function whose dependency graph (the successors
\* of its entry and of the blocks reached without entering another label)
\* has a cycle gets no FuncModel, and its epilogue fails with a cycle error
\* that names blocks of a cycle of that graph; a cycle error is raised for
\* such functions only.
C6_DepCycleFailsBuild ==
    /\ \A a \in TranslatedEntries :
          HasCycle(DepEdges(a))
          => /\ ~HasModel(bbs[a].function_name)
             /\ BuildFailed(a)
                => /\ err = Panic("CycleInCFG", bbs[a].function_name, err.cycle)
                   /\ CycleBlocks(err.cycle, DepEdges(a))
    /\ err.kind = "CycleInCFG"
       => /\ func_entry_addr(err.func_name) \in TranslatedEntries
          /\ HasCycle(DepEdges(func_entry_addr(err.func_name)))

\* C6 witness: the epilogue of a function has failed with a cycle error that
\* names two blocks A -> B -> A, and the function has no model
C6_Witness ==
    /\ BuildFailed(func_entry_addr(err.func_name))
    /\ err.kind = "CycleInCFG"
    /\ Cardinality(err.cycle) = 2
    /\ HasCycle(DepEdges(func_entry_addr(err.func_name)))
    /\ ~HasModel(err.func_name)

RECURSIVE PendingSteps(_)
\* the callees the frames of the stack have yet to visit, plus one step per
\* frame for its epilogue
PendingSteps(stk) ==
    IF stk = << >> THEN 0
    ELSE (Len(Head(stk).callees) + 2 - Head(stk).idx) + PendingSteps(Tail(stk))

\* a bound on the steps left to the running call: every entry not yet
\* generated may push one frame, of at most MaxBlocks callees
Measure ==
    (MaxBlocks + 2) * Cardinality({ a \in Addrs : bbs[a].is_label_entry /\ a \notin generated })
    + PendingSteps(stack)

\* C7: a call of gen_func_model terminates: while it runs a step is always
\* possible and every step decreases a natural-number measure; no entry is
\* built twice; and the union of the callee modifies sets never fails for
\* want of a callee's modifies set.
C7_TerminatesWithoutRebuild ==
    /\ [](\A a \in Addrs : builds[a] <= 1)
    /\ [](err.kind # "NoModSet")
    /\ [](Measure >= 0)
    /\ [](status = "running"
          => stack # << >> /\ Top.idx \in 1..(Len(Top.callees) + 1))
    /\ [][(status = "running" /\ status' = "running") => Measure' < Measure]_vars

\* C7 witness: two translated functions that call each other have both
\* been built and the driver's call has returned
C7_Witness ==
    /\ status = "idle"
    /\ \E fm, gm \in TranslatedModels :
          /\ fm.name # gm.name
          /\ gm.name \in JalCallees(fm)
          /\ fm.name \in JalCallees(gm)

-----------------------------------------------------------------------------
(* SIR: specification types and expressions                                *)
(* (src/asts/src/spec_lang/sl_ast.rs)                                      *)

VType_Unknown == [t |-> "Unknown"]
VType_Bv(w) == [t |-> "Bv", w |-> w]
VType_Int == [t |-> "Int"]
VType_Bool == [t |-> "Bool"]
VType_Array(in_type, out_type) ==
    [t |-> "Array", in_type |-> in_type, out_type |-> out_type]
\* fields is a function from the field names to their types
VType_Struct(id, fields, size) ==
    [t |-> "Struct", id |-> id, fields |-> fields, size |-> size]

\* a panic raised while a type is inferred, and while a pass rewrites a tree
TypePanic == [t |-> "Panic"]
SlPanic == [b |-> "Panic", v |-> "Panic"]
SlIsPanic(x) == x = SlPanic
SlAnyPanic(xs) == \E i \in DOMAIN xs : SlIsPanic(xs[i])

SlBv(value, typ) == [v |-> "Bv", value |-> value, typ |-> typ]
SlInt(value, typ) == [v |-> "Int", value |-> value, typ |-> typ]
SlIdent(name, typ) == [v |-> "Ident", name |-> name, typ |-> typ]
SlOpApp(op, exprs, typ) == [v |-> "OpApp", op |-> op, exprs |-> exprs, typ |-> typ]
SlFuncApp(fid, exprs, typ) == [v |-> "FuncApp", fid |-> fid, exprs |-> exprs, typ |-> typ]

ValueOp(f) == [f |-> f]
ValueOp_Slice(lo, hi) == [f |-> "Slice", lo |-> lo, hi |-> hi]

SlBool(val) == [b |-> "Bool", val |-> val]
SlBOpApp(bop, exprs) == [b |-> "BOpApp", bop |-> bop, exprs |-> exprs]
SlCOpApp(cop, exprs) == [b |-> "COpApp", cop |-> cop, exprs |-> exprs]

\* BoolOp: Conj, Disj, Neg, Implies carry nothing, a quantifier carries its
\* bound identifier and that identifier's type
SlBoolOp(f) == [f |-> f]
Forall(v, typ) == [f |-> "Forall", v |-> v, typ |-> typ]
Exists(v, typ) == [f |-> "Exists", v |-> v, typ |-> typ]

sl_is_lit(vexpr) == vexpr.v \in {"Bv", "Int", "Bool"}
\* VExpr::get_lit_value of a literal (`*value as u64` for an Int)
get_lit_value(vexpr) == IF vexpr.v = "Int" THEN AsU64(vexpr.value) ELSE vexpr.value

\* VType::get_bv_width; the panic is the width -1
get_bv_width(typ) == IF typ.t = "Bv" THEN typ.w ELSE 0 - 1

\* VType::get_array_out_type_size; the panic is the size -1
get_array_out_type_size(typ) ==
    IF typ.t # "Array" THEN 0 - 1
    ELSE CASE typ.out_type.t = "Bv" -> typ.out_type.w
           [] typ.out_type.t = "Struct" -> typ.out_type.size
           [] OTHER -> 0 - 1

\* VType::infer_op_type
infer_op_type(op, exprs) ==
    IF Len(exprs) = 0 THEN TypePanic
    ELSE CASE op.f = "ArrayIndex" ->
                IF exprs[1].typ.t = "Array" THEN exprs[1].typ.out_type ELSE TypePanic
           [] op.f = "Slice" ->
                \* hi - lo on u16
                IF op.hi >= op.lo THEN VType_Bv(op.hi - op.lo)
                ELSE IF overflow_checks THEN TypePanic
                ELSE VType_Bv(op.hi - op.lo + 2 ^ 16)
           [] op.f = "GetField" ->
                IF exprs[1].typ.t # "Struct" \/ Len(exprs) < 2 THEN TypePanic
                ELSE IF exprs[2].v # "Ident" THEN TypePanic
                ELSE IF exprs[2].name \in DOMAIN exprs[1].typ.fields
                     THEN exprs[1].typ.fields[exprs[2].name]
                     ELSE TypePanic
           [] op.f \in {"Add", "Sub", "Div", "Mul", "BvXor", "BvOr", "BvAnd", "Deref"} ->
                IF \A i \in DOMAIN exprs : exprs[i].typ = exprs[1].typ
                THEN exprs[1].typ
                ELSE TypePanic
           [] op.f = "Concat" ->
                IF Len(exprs) < 2 THEN TypePanic
                ELSE IF get_bv_width(exprs[1].typ) < 0 \/ get_bv_width(exprs[2].typ) < 0
                     THEN TypePanic
                     ELSE VType_Bv(get_bv_width(exprs[1].typ) + get_bv_width(exprs[2].typ))
           [] op.f \in {"RightShift", "URightShift", "LeftShift"} ->
                IF Len(exprs) < 2 THEN TypePanic ELSE exprs[2].typ
           [] OTHER -> TypePanic

\* VType::infer_func_app_type
infer_func_app_type(fapp, exprs) ==
    IF Len(exprs) = 0 THEN TypePanic
    ELSE CASE fapp \in {"old", "value"} -> exprs[1].typ
           [] fapp \in {"sext", "uext"} ->
                IF Len(exprs) < 2 THEN TypePanic
                ELSE IF get_bv_width(exprs[2].typ) < 0 \/ ~sl_is_lit(exprs[1]) THEN TypePanic
                ELSE VType_Bv(get_bv_width(exprs[2].typ) + get_lit_value(exprs[1]))
           [] OTHER -> TypePanic

-----------------------------------------------------------------------------
(* The DWARF context the specifications are lowered against                *)

Primitive(bytes) == [d |-> "Primitive", bytes |-> bytes]
DwarfArray(in_typ, out_typ, bytes) ==
    [d |-> "Array", in_typ |-> in_typ, out_typ |-> out_typ, bytes |-> bytes]
\* fields is a function from the field names to their type definitions
DwarfStruct(id, fields, bytes) ==
    [d |-> "Struct", id |-> id, fields |-> fields, bytes |-> bytes]

\* DwarfCtx::global_vars: a primitive g, an array arr of primitives, a struct
\* s with a primitive and an array field, and a primitive that has the name
\* of a formal argument
global_vars ==
    [ g   |-> [memory_addr |-> 4, typ_defn |-> Primitive(4)],
      arr |-> [memory_addr |-> 8,
               typ_defn |-> DwarfArray(Primitive(8), Primitive(4), 8)],
      s   |-> [memory_addr |-> 2,
               typ_defn |-> DwarfStruct("S", [fld |-> Primitive(4),
                                              tab |-> DwarfArray(Primitive(8), Primitive(4), 4)],
                                        8)],
      n   |-> [memory_addr |-> 1, typ_defn |-> Primitive(4)] ]

\* DwarfCtx::global_var(name).is_ok()
has_global_var(name) == name \in DOMAIN global_vars

\* DwarfCtx::func_sigs: the formal arguments of the functions with a signature
func_sigs ==
    [ fn \in {LabelNames[1], LabelNames[2]} |->
        [ args |-> [ i \in DOMAIN func_args(fn) |->
                       [name |-> func_args(fn)[i].name, typ_defn |-> Primitive(4)] ] ] ]

RECURSIVE from_dwarf_type(_)
\* from_dwarf_type (lib.rs:633-662)
from_dwarf_type(dtd) ==
    CASE dtd.d \in {"Primitive", "Pointer"} -> VType_Bv(dtd.bytes * BYTE_SIZE)
      [] dtd.d = "Array" ->
            VType_Array(from_dwarf_type(dtd.in_typ), from_dwarf_type(dtd.out_typ))
      [] dtd.d = "Struct" ->
            VType_Struct(dtd.id,
                         [f \in DOMAIN dtd.fields |-> from_dwarf_type(dtd.fields[f])],
                         dtd.bytes * BYTE_SIZE)

-----------------------------------------------------------------------------
(* Pass 1: VExprTypeInference (lib.rs:350-569)                             *)

\* the identifiers of the system model (lib.rs:395-422)
SystemVarNames ==
    {PC_VAR, RETURNED_FLAG, "priv", MEM_VAR_B, MEM_VAR_H, MEM_VAR_W, MEM_VAR_D,
     "a0", "sp", "ra"}

\* `func_sig.args.iter().find(|dv| dv.name == var_id)` succeeds
is_formal_arg(fname, var_id) ==
    /\ fname \in DOMAIN func_sigs
    /\ \E i \in DOMAIN func_sigs[fname].args : func_sigs[fname].args[i].name = var_id

\* get_ident_name panics on a bound expression that is no identifier
TI_boolop_panics(bop) == bop.f \in {"Forall", "Exists"} /\ bop.v.v # "Ident"

\* VExprTypeInference::rewrite_bexpr_boolop: the type map after the operator
TI_rewrite_bexpr_boolop(bop, typ_map) ==
    IF bop.f \in {"Forall", "Exists"}
    THEN Put(typ_map, bop.v.name, bop.v.typ)
    ELSE typ_map

\* system_model::pc_type, returned_type, priv_type, mem_*_type and bv_type:
\* the VIR types of the system identifiers
system_var_type(var_id) ==
    CASE var_id = PC_VAR -> pc_var.typ
      [] var_id = RETURNED_FLAG -> returned_var.typ
      [] var_id = "priv" -> BvType(2)
      [] var_id \in {MEM_VAR_B, MEM_VAR_H, MEM_VAR_W, MEM_VAR_D} ->
            mem_var(var_id, MemVarBytes(var_id)).typ
      [] OTHER -> reg(var_id).typ

RECURSIVE from_ast_type(_)
\* VType::from_ast_type (sl_ast.rs:133-158) on the types of the system model
from_ast_type(typ) ==
    CASE typ.t = "Bv" -> VType_Bv(typ.w)
      [] typ.t = "Array" ->
            VType_Array(from_ast_type(typ.in_typ), from_ast_type(typ.out_typ))
      [] typ.t = "Bool" -> VType_Bool
      [] typ.t = "Int" -> VType_Int
      [] OTHER -> VType_Unknown

\* no type was found for an identifier (typ_opt is None)
NoType == [t |-> "None"]

\* the type of the formal argument var_id of fname
formal_arg_type(fname, var_id) ==
    from_dwarf_type(
        func_sigs[fname].args[CHOOSE i \in DOMAIN func_sigs[fname].args :
                                  func_sigs[fname].args[i].name = var_id].typ_defn)

\* typ_opt of rewrite_vexpr_ident ahead of the global lookup (lib.rs:391-437):
\* the type of a system identifier, replaced by that of a formal argument
\* of the name, or else the type the scope map has for the name
TI_typ_opt(var_id, fname, typ_map) ==
    IF is_formal_arg(fname, var_id) THEN formal_arg_type(fname, var_id)
    ELSE IF var_id \in SystemVarNames THEN from_ast_type(system_var_type(var_id))
    ELSE IF var_id \in DOMAIN typ_map THEN typ_map[var_id]
    ELSE NoType

\* VExprTypeInference::rewrite_vexpr_ident
TI_rewrite_vexpr_ident(vexpr, fname, typ_map) ==
    LET var_id == vexpr.name
    IN  IF TI_typ_opt(var_id, fname, typ_map) = NoType
        THEN IF ~has_global_var(var_id)
             THEN vexpr
             ELSE LET typ == from_dwarf_type(global_vars[var_id].typ_defn)
                      global_addr == SlIdent(var_id, typ)
                  IN  IF typ.t = "Bv"
                      THEN SlOpApp(ValueOp("Deref"), << global_addr >>, typ)
                      ELSE global_addr
        ELSE SlIdent(var_id, VType_Bv(XLEN))

\* VExprTypeInference::rewrite_vexpr_opapp
TI_rewrite_vexpr_opapp(opapp) ==
    LET op == opapp.op
        exprs == opapp.exprs
        rw_typ == infer_op_type(op, exprs)
    IN  IF rw_typ = TypePanic THEN SlPanic
        ELSE CASE op.f = "GetField" ->
                    LET field_type == exprs[1].typ.fields[exprs[2].name]
                        field_ident == SlIdent(exprs[2].name, field_type)
                        select_opapp == SlOpApp(op, << exprs[1], field_ident >>, rw_typ)
                    IN  IF field_type.t = "Bv"
                        THEN SlOpApp(ValueOp("Deref"), << select_opapp >>, field_type)
                        ELSE select_opapp
               [] op.f = "ArrayIndex" ->
                    IF exprs[1].typ.out_type.t = "Bv"
                    THEN SlOpApp(ValueOp("Deref"), << SlOpApp(op, exprs, rw_typ) >>,
                                 exprs[1].typ.out_type)
                    ELSE SlOpApp(op, exprs, rw_typ)
               [] OTHER -> SlOpApp(op, exprs, rw_typ)

RECURSIVE TI_visit_vexpr(_, _, _)
\* VExprTypeInference::rewrite_vexpr_funcapp: the operands, which visit_vexpr
\* has rewritten already, are visited again
TI_rewrite_vexpr_funcapp(funcapp, fname, typ_map) ==
    LET rw_exprs == [i \in DOMAIN funcapp.exprs |->
                        TI_visit_vexpr(funcapp.exprs[i], fname, typ_map)]
        rw_typ == infer_func_app_type(funcapp.fid, rw_exprs)
    IN  IF SlAnyPanic(rw_exprs) \/ rw_typ = TypePanic THEN SlPanic
        ELSE SlFuncApp(funcapp.fid, rw_exprs, rw_typ)

\* ASTRewriter::visit_vexpr for VExprTypeInference (sl_ast.rs:360-430)
TI_visit_vexpr(vexpr, fname, typ_map) ==
    CASE vexpr.v = "Ident" -> TI_rewrite_vexpr_ident(vexpr, fname, typ_map)
      [] vexpr.v = "OpApp" ->
            LET rw_vexprs == [i \in DOMAIN vexpr.exprs |->
                                 TI_visit_vexpr(vexpr.exprs[i], fname, typ_map)]
            IN  IF SlAnyPanic(rw_vexprs) THEN SlPanic
                ELSE TI_rewrite_vexpr_opapp(SlOpApp(vexpr.op, rw_vexprs, vexpr.typ))
      [] vexpr.v = "FuncApp" ->
            LET rw_vexprs == [i \in DOMAIN vexpr.exprs |->
                                 TI_visit_vexpr(vexpr.exprs[i], fname, typ_map)]
            IN  IF SlAnyPanic(rw_vexprs) THEN SlPanic
                ELSE TI_rewrite_vexpr_funcapp(SlFuncApp(vexpr.fid, rw_vexprs, vexpr.typ),
                                              fname, typ_map)
      [] OTHER -> vexpr

RECURSIVE TI_visit_bexpr(_, _, _)
RECURSIVE TI_visit_bexprs(_, _, _, _, _)
\* ASTRewriter::visit_bexprs, the type map threaded through the operands in
\* order; the result is the pair of the rewritten operands and the type map
TI_visit_bexprs(exprs, i, fname, typ_map, acc) ==
    IF i > Len(exprs) THEN [bexprs |-> acc, typ_map |-> typ_map]
    ELSE LET r == TI_visit_bexpr(exprs[i], fname, typ_map)
         IN  IF SlIsPanic(r.bexpr) THEN [bexprs |-> << SlPanic >>, typ_map |-> typ_map]
             ELSE TI_visit_bexprs(exprs, i + 1, fname, r.typ_map, Append(acc, r.bexpr))

\* ASTRewriter::visit_bexpr for VExprTypeInference (sl_ast.rs:310-358): the
\* result is the pair of the rewritten expression and the type map
TI_visit_bexpr(bexpr, fname, typ_map) ==
    CASE bexpr.b = "BOpApp" ->
            LET m == TI_rewrite_bexpr_boolop(bexpr.bop, typ_map)
            IN  IF TI_boolop_panics(bexpr.bop) THEN [bexpr |-> SlPanic, typ_map |-> typ_map]
                ELSE LET r == TI_visit_bexprs(bexpr.exprs, 1, fname, m, << >>)
                     IN  IF SlAnyPanic(r.bexprs)
                         THEN [bexpr |-> SlPanic, typ_map |-> typ_map]
                         ELSE [bexpr |-> SlBOpApp(bexpr.bop, r.bexprs),
                               typ_map |-> r.typ_map]
      [] bexpr.b = "COpApp" ->
            LET rw_vexprs == [i \in DOMAIN bexpr.exprs |->
                                 TI_visit_vexpr(bexpr.exprs[i], fname, typ_map)]
            IN  [bexpr |-> IF SlAnyPanic(rw_vexprs) THEN SlPanic
                           ELSE SlCOpApp(bexpr.cop, rw_vexprs),
                 typ_map |-> typ_map]
      [] OTHER -> [bexpr |-> bexpr, typ_map |-> typ_map]

\* the type inference pass of sl_bexpr_rewrite_passes: a fresh type map
VExprTypeInference(bexpr, fname) == TI_visit_bexpr(bexpr, fname, EmptyMap).bexpr

-----------------------------------------------------------------------------
(* Pass 2: RenameGlobals (lib.rs:333-348)                                  *)

\* is_global on an identifier (lib.rs:666-674)
is_global(vexpr) == vexpr.v = "Ident" /\ has_global_var(vexpr.name)

\* rewrite_vexpr_ident that leaves the identifier of a global in place
RG_rewrite_vexpr_ident_kept(ident) == ident

\* RenameGlobals::rewrite_vexpr_ident
RG_rewrite_vexpr_ident(ident) ==
    IF is_global(ident)
    THEN SlBv(global_vars[ident.name].memory_addr, ident.typ)
    ELSE ident

RECURSIVE RG_visit_vexpr(_)
\* ASTRewriter::visit_vexpr for RenameGlobals
RG_visit_vexpr(vexpr) ==
    CASE vexpr.v = "Ident" -> RG_rewrite_vexpr_ident(vexpr)
      [] vexpr.v = "OpApp" ->
            SlOpApp(vexpr.op, [i \in DOMAIN vexpr.exprs |-> RG_visit_vexpr(vexpr.exprs[i])],
                    vexpr.typ)
      [] vexpr.v = "FuncApp" ->
            SlFuncApp(vexpr.fid,
                      [i \in DOMAIN vexpr.exprs |-> RG_visit_vexpr(vexpr.exprs[i])],
                      vexpr.typ)
      [] OTHER -> vexpr

RECURSIVE RG_visit_bexpr(_)
\* ASTRewriter::visit_bexpr for RenameGlobals: the operator of a BOpApp goes
\* through the default rewrite_bexpr_boolop, which returns it as it is
RG_visit_bexpr(bexpr) ==
    CASE bexpr.b = "BOpApp" ->
            SlBOpApp(bexpr.bop, [i \in DOMAIN bexpr.exprs |-> RG_visit_bexpr(bexpr.exprs[i])])
      [] bexpr.b = "COpApp" ->
            SlCOpApp(bexpr.cop, [i \in DOMAIN bexpr.exprs |-> RG_visit_vexpr(bexpr.exprs[i])])
      [] OTHER -> bexpr

RenameGlobals(bexpr) == RG_visit_bexpr(bexpr)

-----------------------------------------------------------------------------
(* Pass 3: ConstantFolder (lib.rs:571-627)                                 *)

\* the value of a folded operator on two literal values; ArithPanic when the
\* machine operation panics
CF_value(f, a, b) ==
    CASE f = "Add" -> U64Add(a, b)
      [] f = "Sub" -> U64Sub(a, b)
      [] f = "Div" -> U64Div(a, b)
      [] f = "Mul" -> U64Mul(a, b)
      [] f = "BvXor" -> U64Xor(a, b)
      [] f = "BvOr" -> U64Or(a, b)
      [] f = "BvAnd" -> U64And(a, b)
      [] f = "RightShift" -> I64Shr(a, b)
      [] f = "URightShift" -> U64Shr(a, b)
      [] f = "LeftShift" -> U64Shl(a, b)

\* the operators folded from the values of two literals
CF_binary_ops ==
    {"Add", "Sub", "Div", "Mul", "BvXor", "BvOr", "BvAnd", "RightShift",
     "URightShift", "LeftShift"}

\* a literal of the value, a panic when the value is one
CF_lit(value, typ) == IF value = ArithPanic THEN SlPanic ELSE SlBv(value, typ)

RECURSIVE constant_fold(_)
\* ConstantFolder::constant_fold
constant_fold(vexpr) ==
    IF vexpr.v # "OpApp" THEN vexpr
    ELSE
    LET value_op == vexpr.op
        typ == vexpr.typ
        rw_operands == [i \in DOMAIN vexpr.exprs |-> constant_fold(vexpr.exprs[i])]
        has2 == Len(rw_operands) >= 2
    IN  IF SlAnyPanic(rw_operands) \/ Len(rw_operands) = 0 THEN SlPanic
        ELSE
        LET oper1 == rw_operands[1]
        IN  IF ~(sl_is_lit(oper1) /\ (has2 => sl_is_lit(rw_operands[2])))
            THEN SlOpApp(value_op, rw_operands, typ)
            ELSE
            LET oper1_val == get_lit_value(oper1)
            IN  CASE value_op.f \in CF_binary_ops ->
                        IF ~has2 THEN SlPanic
                        ELSE CF_lit(CF_value(value_op.f, oper1_val,
                                             get_lit_value(rw_operands[2])),
                                    oper1.typ)
                  [] value_op.f = "Slice" ->
                        IF ~has2 THEN SlPanic
                        ELSE IF get_bv_width(oper1.typ) < 0
                                \/ get_bv_width(rw_operands[2].typ) < 0
                        THEN SlPanic
                        ELSE SlBv(U64And(oper1_val, mask(value_op.hi, value_op.lo)),
                                  VType_Bv(get_bv_width(oper1.typ)
                                           + get_bv_width(rw_operands[2].typ)))
                  [] value_op.f = "ArrayIndex" ->
                        IF get_array_out_type_size(oper1.typ) < 0 \/ ~has2 THEN SlPanic
                        ELSE LET out_typ_bytes ==
                                     get_array_out_type_size(oper1.typ) \div BYTE_SIZE
                                 index == get_lit_value(rw_operands[2])
                                 prod == U64Mul(out_typ_bytes, index)
                             IN  IF prod = ArithPanic THEN SlPanic
                                 ELSE CF_lit(U64Add(oper1_val, prod), oper1.typ.out_type)
                  [] value_op.f = "Deref" -> SlIdent(abs_access_name(oper1_val), typ)
                  [] OTHER -> SlOpApp(value_op, rw_operands, typ)

RECURSIVE CF_visit_vexpr(_)
\* ASTRewriter::visit_vexpr for ConstantFolder: rewrite_vexpr folds every
\* node after its operands were visited
CF_visit_vexpr(vexpr) ==
    CASE vexpr.v = "OpApp" ->
            LET rw_vexprs == [i \in DOMAIN vexpr.exprs |-> CF_visit_vexpr(vexpr.exprs[i])]
            IN  IF SlAnyPanic(rw_vexprs) THEN SlPanic
                ELSE constant_fold(SlOpApp(vexpr.op, rw_vexprs, vexpr.typ))
      [] vexpr.v = "FuncApp" ->
            LET rw_vexprs == [i \in DOMAIN vexpr.exprs |-> CF_visit_vexpr(vexpr.exprs[i])]
            IN  IF SlAnyPanic(rw_vexprs) THEN SlPanic
                ELSE constant_fold(SlFuncApp(vexpr.fid, rw_vexprs, vexpr.typ))
      [] OTHER -> constant_fold(vexpr)

RECURSIVE CF_visit_bexpr(_)
\* ASTRewriter::visit_bexpr for ConstantFolder
CF_visit_bexpr(bexpr) ==
    CASE bexpr.b = "BOpApp" ->
            LET rw == [i \in DOMAIN bexpr.exprs |-> CF_visit_bexpr(bexpr.exprs[i])]
            IN  IF SlAnyPanic(rw) THEN SlPanic ELSE SlBOpApp(bexpr.bop, rw)
      [] bexpr.b = "COpApp" ->
            LET rw == [i \in DOMAIN bexpr.exprs |-> CF_visit_vexpr(bexpr.exprs[i])]
            IN  IF SlAnyPanic(rw) THEN SlPanic ELSE SlCOpApp(bexpr.cop, rw)
      [] OTHER -> bexpr

ConstantFolder(bexpr) == CF_visit_bexpr(bexpr)

-----------------------------------------------------------------------------
(* The lowering pipeline sl_bexpr_rewrite_passes (lib.rs:305-326), one     *)
(* step per pass; a pass that panics ends the run                          *)

\* Pass 1: VExprTypeInference::visit_bexpr with a fresh type map
TypeInferencePass ==
    /\ sl_input # NoBExpr
    /\ sl_passes = << >>
    /\ sl_prev' = sl_bexpr
    /\ sl_bexpr' = VExprTypeInference(sl_bexpr, sl_fname)
    /\ sl_passes' = << 1 >>
    /\ UNCHANGED << builder_vars, overflow_checks, sl_fname, sl_input, emit_vars, vir_vars >>

\* Pass 2: RenameGlobals::visit_bexpr
RenameGlobalsPass ==
    /\ sl_passes = << 1 >>
    /\ ~SlIsPanic(sl_bexpr)
    /\ sl_prev' = sl_bexpr
    /\ sl_bexpr' = RenameGlobals(sl_bexpr)
    /\ sl_passes' = << 1, 2 >>
    /\ UNCHANGED << builder_vars, overflow_checks, sl_fname, sl_input, emit_vars, vir_vars >>

\* Pass 3: ConstantFolder::visit_bexpr
ConstantFolderPass ==
    /\ sl_passes = << 1, 2 >>
    /\ ~SlIsPanic(sl_bexpr)
    /\ sl_prev' = sl_bexpr
    /\ sl_bexpr' = ConstantFolder(sl_bexpr)
    /\ sl_passes' = << 1, 2, 3 >>
    /\ UNCHANGED << builder_vars, overflow_checks, sl_fname, sl_input, emit_vars, vir_vars >>

-----------------------------------------------------------------------------
(* Parsed specifications the pipeline is run on                            *)

\* the type the parser gives a bit-vector literal and a bound identifier
LitType == VType_Bv(32)
WordType == VType_Bv(XLEN)

\* a comparison of a value expression with the literal zero
EqZero(vexpr) == SlCOpApp("Equal", << vexpr, SlBv(0, LitType) >>)

\* closed operator applications: one binary operator on two literals
ClosedOpApp(f, a, b) ==
    SlOpApp(ValueOp(f), << SlBv(a, LitType), SlBv(b, LitType) >>, VType_Unknown)

\* identifiers: globals, a formal argument of LabelNames[2] (that is a global
\* as well), a register, a memory array, a name a quantifier binds and a
\* name nothing declares
IdentNames == {"g", "arr", "s", "n", "a0", MEM_VAR_W, "x", "zz"}

NameLeaves == { SlIdent(name, VType_Unknown) : name \in IdentNames }

SelectExprs ==
    { SlOpApp(ValueOp("GetField"),
              << SlIdent("s", VType_Unknown), SlIdent(f, VType_Unknown) >>,
              VType_Unknown) : f \in {"fld", "tab"} }
    \cup { SlOpApp(ValueOp("ArrayIndex"),
                   << SlIdent("arr", VType_Unknown), SlInt(i, VType_Int) >>,
                   VType_Unknown) : i \in {1, 3} }

NameExprs ==
    NameLeaves \cup SelectExprs
    \cup { SlOpApp(ValueOp("Add"), << e, SlBv(1, t) >>, VType_Unknown) :
             e \in NameLeaves \cup SelectExprs, t \in {LitType, WordType} }
    \cup { SlFuncApp(fid, << e >>, VType_Unknown) :
             e \in NameLeaves \cup SelectExprs, fid \in {"old", "other"} }
    \cup { SlFuncApp("sext", << SlBv(1, LitType), e >>, VType_Unknown) : e \in NameLeaves }
    \cup { SlOpApp(ValueOp_Slice(0, 1), << e >>, VType_Unknown) : e \in NameLeaves }

\* quantified comparisons; the bound name may be that of a global
BoundNames == {"x", "g"}

NameBExprs ==
    { EqZero(e) : e \in NameExprs }
    \cup { SlBOpApp(q, << EqZero(e) >>) :
             e \in NameExprs,
             q \in { Forall(SlIdent(b, WordType), WordType) : b \in BoundNames }
                   \cup { Exists(SlIdent(b, WordType), WordType) : b \in BoundNames } }
    \cup { SlBOpApp(SlBoolOp("Conj"),
                    << SlBOpApp(Forall(SlIdent("x", WordType), WordType), << EqZero(e) >>),
                       EqZero(e) >>) : e \in NameLeaves }
    \cup { SlBOpApp(Forall(SlIdent("x", LitType), LitType), << EqZero(e) >>) :
             e \in NameLeaves }
    \cup { SlBOpApp(SlBoolOp("Neg"), << SlBool(TRUE) >>) }

\* the translator is not constructed yet while the specifications are lowered
InitSirContext ==
    /\ bbs = EmptyMap
    /\ ignored_funcs = {}
    /\ specs_map = EmptyMap
    /\ ignore_specs = FALSE
    /\ InitBuilderContext

InitSirClosed ==
    /\ sl_fname = LabelNames[1]
    /\ \E f \in CF_binary_ops : \E a \in 0..(U64Mod - 1) : \E b \in 0..(U64Mod - 1) :
          sl_input = EqZero(ClosedOpApp(f, a, b))

InitSirNames ==
    /\ sl_fname \in {LabelNames[1], LabelNames[2]}
    /\ sl_input \in NameBExprs

\* closed applications whose operands differ in type: a shift of a word by a
\* literal of the parser's width and of the address of an array by one, and
\* a slice in the shape the fold reads it, on two literals
MixedOpApps ==
    { SlOpApp(ValueOp(f), << SlBv(a, WordType), SlBv(b, LitType) >>, VType_Unknown) :
        f \in {"RightShift", "URightShift", "LeftShift"}, a \in {1, 12}, b \in {0, 1} }
    \cup { SlOpApp(ValueOp(f), << SlIdent("arr", VType_Unknown), SlBv(1, LitType) >>,
                   VType_Unknown) : f \in {"RightShift", "URightShift", "LeftShift"} }
    \cup { SlOpApp(ValueOp_Slice(lo, hi), << SlBv(a, LitType), SlBv(0, LitType) >>,
                   VType_Unknown) : lo \in 0..2, hi \in 0..2, a \in {1, 12} }

InitSirMixed ==
    /\ sl_fname = LabelNames[1]
    /\ sl_input \in { EqZero(e) : e \in MixedOpApps }

InitSir ==
    /\ InitSirContext
    /\ overflow_checks \in BOOLEAN
    /\ InitSirClosed \/ InitSirNames \/ InitSirMixed
    /\ sl_bexpr = sl_input
    /\ sl_prev = NoBExpr
    /\ sl_passes = << >>
    /\ InitEmitIdle
    /\ InitVirIdle

NextSir ==
    \/ TypeInferencePass
    \/ RenameGlobalsPass
    \/ ConstantFolderPass

SpecSir == InitSir /\ [][NextSir]_vars

-----------------------------------------------------------------------------
(* Properties of the lowering pipeline                                     *)

\* C8: running the type-inference pass a second time on its own output
\* yields the same tree: no further Deref is put around an identifier, a
\* field select or an array index that already received one.
C8_TypeInferenceIdempotent ==
    (sl_passes = << 1 >> /\ ~SlIsPanic(sl_bexpr))
        => VExprTypeInference(sl_bexpr, sl_fname) = sl_bexpr

RECURSIVE VExprIdents(_)
\* the names of the Ident nodes of a value expression
VExprIdents(vexpr) ==
    CASE vexpr.v = "Ident" -> {vexpr.name}
      [] vexpr.v \in {"OpApp", "FuncApp"} ->
            UnionAll({ VExprIdents(vexpr.exprs[i]) : i \in DOMAIN vexpr.exprs })
      [] OTHER -> {}

RECURSIVE BExprIdents(_)
\* the names of the Ident nodes of a boolean expression, the identifiers its
\* quantifiers bind included
BExprIdents(bexpr) ==
    CASE bexpr.b = "BOpApp" ->
            (IF bexpr.bop.f \in {"Forall", "Exists"} THEN VExprIdents(bexpr.bop.v) ELSE {})
            \cup UnionAll({ BExprIdents(bexpr.exprs[i]) : i \in DOMAIN bexpr.exprs })
      [] bexpr.b = "COpApp" ->
            UnionAll({ VExprIdents(bexpr.exprs[i]) : i \in DOMAIN bexpr.exprs })
      [] OTHER -> {}

\* C9: after the global-rename pass no Ident node of the tree, the bound
\* identifier of a Forall/Exists included, has the name of a DWARF global.
C9_NoGlobalIdentAfterRename ==
    sl_passes = << 1, 2 >> => \A name \in BExprIdents(sl_bexpr) : ~has_global_var(name)

\* the reference evaluation of a binary operator on two words: modular
\* arithmetic, a shift by the width or more shifts every bit out, a division
\* by zero gives the all-ones word
RefEval(f, a, b) ==
    CASE f = "Add" -> (a + b) % U64Mod
      [] f = "Sub" -> (a - b) % U64Mod
      [] f = "Mul" -> (a * b) % U64Mod
      [] f = "Div" -> IF b = 0 THEN U64Mod - 1 ELSE a \div b
      [] f = "BvXor" -> BitOp("xor", a, b, WordBits)
      [] f = "BvOr" -> BitOp("or", a, b, WordBits)
      [] f = "BvAnd" -> BitOp("and", a, b, WordBits)
      [] f = "LeftShift" -> IF b >= WordBits THEN 0 ELSE (a * 2 ^ b) % U64Mod
      [] f = "URightShift" -> IF b >= WordBits THEN 0 ELSE a \div 2 ^ b
      [] f = "RightShift" ->
            AsU64(AsI64(a) \div 2 ^ (IF b >= WordBits THEN WordBits - 1 ELSE b))

\* the parsed expression compares a closed application of a folded binary
\* operator to two literals
IsClosedInput ==
    /\ sl_input.b = "COpApp"
    /\ sl_input.exprs[1].v = "OpApp"
    /\ sl_input.exprs[1].op.f \in CF_binary_ops
    /\ Len(sl_input.exprs[1].exprs) = 2
    /\ \A i \in 1..2 : sl_input.exprs[1].exprs[i].v = "Bv"

\* C10: constant folding replaces a closed application of Add, Sub, Mul, Div,
\* BvXor, BvOr, BvAnd or a shift to literals by the literal of the reference
\* evaluation of the operator, whatever the operand values.
C10_FoldEqualsReference ==
    (sl_passes = << 1, 2, 3 >> /\ IsClosedInput) =>
        /\ ~SlIsPanic(sl_bexpr)
        /\ sl_bexpr.exprs[1] =
              SlBv(RefEval(sl_input.exprs[1].op.f,
                           sl_input.exprs[1].exprs[1].value,
                           sl_input.exprs[1].exprs[2].value),
                   sl_input.exprs[1].exprs[1].typ)

\* the parsed expression compares a reference to a primitive global with
\* zero: the name is no system identifier and no formal argument of the
\* function, and nothing binds it
IsPrimitiveGlobalRef ==
    /\ sl_input.b = "COpApp"
    /\ sl_input.exprs[1].v = "Ident"
    /\ has_global_var(sl_input.exprs[1].name)
    /\ global_vars[sl_input.exprs[1].name].typ_defn.d = "Primitive"
    /\ sl_input.exprs[1].name \notin SystemVarNames
    /\ ~is_formal_arg(sl_fname, sl_input.exprs[1].name)

\* the parsed expression compares ArrayIndex(arr, Int(i)) with zero, arr a
\* global array of primitive elements
IsGlobalArrayIndex ==
    /\ sl_input.b = "COpApp"
    /\ sl_input.exprs[1].v = "OpApp"
    /\ sl_input.exprs[1].op.f = "ArrayIndex"
    /\ sl_input.exprs[1].exprs[1].v = "Ident"
    /\ has_global_var(sl_input.exprs[1].exprs[1].name)
    /\ global_vars[sl_input.exprs[1].exprs[1].name].typ_defn.d = "Array"
    /\ global_vars[sl_input.exprs[1].exprs[1].name].typ_defn.out_typ.d = "Primitive"
    /\ sl_input.exprs[1].exprs[2].v = "Int"

\* the address B + n*i of the indexed element
ElementAddr ==
    LET arr == global_vars[sl_input.exprs[1].exprs[1].name]
    IN  arr.memory_addr + arr.typ_defn.out_typ.bytes * sl_input.exprs[1].exprs[2].value

-----------------------------------------------------------------------------
(* Backend emitter: Uclid5Interface::model_to_string                       *)
(* (src/src/verification_interfaces/uclidinterface.rs)                     *)

\* the characters (code points) of the names the emitted text is sorted by
NameChars ==
    [ a0 |-> << 97, 48 >>, pc |-> << 112, 99 >>,
      mem_access_12 |-> << 109, 101, 109, 95, 97, 99, 99, 101, 115, 115, 95, 49, 50 >>,
      S |-> << 83 >>, T |-> << 84 >>, c |-> << 99 >>,
      fld |-> << 102, 108, 100 >>, tab |-> << 116, 97, 98 >> ]

\* `<` of String: the order of the byte sequences
StrLess(a, b) ==
    \E i \in 1..(Len(a) + 1) :
        /\ \A j \in 1..(i - 1) : j <= Len(b) /\ a[j] = b[j]
        /\ \/ i = Len(a) + 1 /\ Len(b) >= i
           \/ i <= Len(a) /\ i <= Len(b) /\ a[i] < b[i]

RECURSIVE DecChars(_)
\* format!("{}", n) of an unsigned number: its decimal digits
DecChars(n) ==
    IF n < 10 THEN << 48 + n >> ELSE DecChars(n \div 10) \o << 48 + (n % 10) >>

\* the permutations of a set: the orders a HashSet or HashMap may iterate in
Perms(S) ==
    { p \in [1..Cardinality(S) -> S] : \A i, j \in DOMAIN p : p[i] = p[j] => i = j }

\* `defns.sort(); defns.dedup();` on the lines S, line_chars giving the text
\* of a line
SortedDedup(S, line_chars) ==
    CHOOSE sorted \in Perms(S) :
        \A i, j \in DOMAIN sorted :
            i < j => StrLess(line_chars[sorted[i]], line_chars[sorted[j]])

RECURSIVE SetBits(_, _)
\* the positions, counted from i, of the `1` characters of format!("{:b}", n)
SetBits(n, i) ==
    IF n = 0 THEN {}
    ELSE (IF n % 2 = 1 THEN {i} ELSE {}) \cup SetBits(n \div 2, i + 1)

\* Uclid5Interface::multiply_expr: the shifts of the set bits of num_const,
\* the highest first
multiply_expr(num_const) == Reverse(SortAsc(SetBits(num_const, 0)))

\* one index macro: `define index_by_<bytes>(base, index) = base + <expr>;`,
\* the expression being `index` itself or the shifts of multiply_expr
IndexMacro(bytes, plain) ==
    [bytes |-> bytes, expr |-> IF plain THEN << >> ELSE multiply_expr(bytes)]

\* the text of an index macro from the byte size on: the digits, the opening
\* parenthesis and, past the parameters every macro shares, the first letter
\* of the expression (`i` of index, `b` of bv_left_shift)
IndexMacroChars(line) ==
    DecChars(line.bytes) \o << 40 >> \o << IF line.expr = << >> THEN 105 ELSE 98 >>

RECURSIVE gen_array_defn(_)
\* Uclid5Interface::gen_array_defn: the macros of a type definition
gen_array_defn(typ_defn) ==
    CASE typ_defn.d = "Primitive" ->
            IF typ_defn.bytes > 0
            THEN { IndexMacro(typ_defn.bytes, typ_defn.bytes = 1) }
            ELSE {}
      [] typ_defn.d = "Array" ->
            gen_array_defn(typ_defn.in_typ) \cup gen_array_defn(typ_defn.out_typ)
      [] typ_defn.d = "Struct" ->
            UnionAll({ gen_array_defn(typ_defn.fields[f]) : f \in DOMAIN typ_defn.fields })
            \cup (IF typ_defn.bytes > 0 THEN { IndexMacro(typ_defn.bytes, FALSE) } ELSE {})

\* the type definitions gen_array_defns and gen_struct_defns walk: those of
\* the globals and of the formal arguments (no signature of the context has
\* a return type)
EmittedTypeDefns ==
    { dwarf_globals[i].typ_defn : i \in DOMAIN dwarf_globals }
    \cup UnionAll({ { func_sigs[fn].args[i].typ_defn : i \in DOMAIN func_sigs[fn].args } :
                     fn \in DOMAIN func_sigs })

\* Uclid5Interface::gen_array_defns
gen_array_defns ==
    LET defns == UnionAll({ gen_array_defn(t) : t \in EmittedTypeDefns })
    IN  SortedDedup(defns, [line \in defns |-> IndexMacroChars(line)])

\* one field macro: `define <id>_<field>(ptr) = ptr + <loc>;`
FieldMacro(id, field) == [id |-> id, field |-> field]

\* the text of a field macro from its name on (get_field_macro_name)
FieldMacroChars(line) ==
    NameChars[line.id] \o << 95 >> \o NameChars[line.field] \o << 40 >>

RECURSIVE gen_struct_defn(_)
\* Uclid5Interface::gen_struct_defn
gen_struct_defn(typ) ==
    CASE typ.d = "Struct" ->
            UnionAll({ gen_struct_defn(typ.fields[f]) : f \in DOMAIN typ.fields })
            \cup { FieldMacro(typ.id, f) : f \in DOMAIN typ.fields }
      [] typ.d = "Array" -> gen_struct_defn(typ.in_typ) \cup gen_struct_defn(typ.out_typ)
      [] OTHER -> {}

\* Uclid5Interface::gen_struct_defns
gen_struct_defns ==
    LET defns == UnionAll({ gen_struct_defn(t) : t \in EmittedTypeDefns })
    IN  SortedDedup(defns, [line \in defns |-> FieldMacroChars(line)])

\* Uclid5Interface::gen_global_defns: one macro per global, as iterated
gen_global_defns ==
    [i \in DOMAIN dwarf_globals |->
        [name |-> dwarf_globals[i].name, memory_addr |-> dwarf_globals[i].memory_addr]]

\* Uclid5Interface::gen_global_func_defns
gen_global_func_defns ==
    [i \in DOMAIN func_models |->
        [name |-> func_models[i].name, entry_addr |-> func_models[i].entry_addr]]

\* Uclid5Interface::gen_var_defns: the variables, in the order vars_iter the
\* HashSet iterates in, sorted by the stable sort of Vec on Var's order (the
\* order of the names)
gen_var_defns(vars_iter) ==
    CHOOSE sorted \in Perms(Range(vars_iter)) :
        \A i, j \in DOMAIN sorted :
            i < j => /\ ~StrLess(NameChars[sorted[j].name], NameChars[sorted[i].name])
                     /\ sorted[i].name = sorted[j].name
                        => PosIn(vars_iter, sorted[i]) < PosIn(vars_iter, sorted[j])

\* Uclid5Interface::func_model_to_string, mod_set_iter the order the HashSet
\* mod_set iterates in; requires and ensures are written as empty strings
func_model_to_string(fm, mod_set_iter) ==
    [inline |-> fm.inline, name |-> fm.name, args |-> fm.arg_decls,
     modifies |-> mod_set_iter, requires |-> << >>, ensures |-> << >>, body |-> fm.body]

\* Uclid5Interface::gen_procs
gen_procs(mod_set_iters) ==
    [i \in DOMAIN func_models |-> func_model_to_string(func_models[i], mod_set_iters[i])]

\* Uclid5Interface::control_blk without verify_funcs: a verify command per
\* model of a function with a signature, empty for an ignored one
control_blk ==
    [i \in { j \in DOMAIN func_models : func_models[j].name \in DOMAIN func_sigs } |->
        IF func_models[i].name \notin ignored_funcs THEN func_models[i].name ELSE ""]

\* Uclid5Interface::model_to_string
model_to_string(vars_iter, mod_set_iters) ==
    [module |-> "main",
     var_defns |-> gen_var_defns(vars_iter),
     array_defns |-> gen_array_defns,
     struct_defns |-> gen_struct_defns,
     global_var_defns |-> gen_global_defns,
     global_func_defns |-> gen_global_func_defns,
     procs |-> gen_procs(mod_set_iters),
     ctrl_blk |-> control_blk]

\* the orders the mod_set of every model may iterate in
ModSetIters ==
    { iters \in [DOMAIN func_models -> UNION { Perms(func_models[i].mod_set) :
                                                 i \in DOMAIN func_models }] :
        \A i \in DOMAIN func_models : iters[i] \in Perms(func_models[i].mod_set) }

\* Translator::print_model (translator.rs:137-145), called by the driver
\* after its loop over the functions (lib.rs:158-159)
print_model ==
    /\ status = "idle"
    /\ model_str = NoOutput
    /\ \E vars_iter \in Perms(model_vars) : \E mod_set_iters \in ModSetIters :
          model_str' = model_to_string(vars_iter, mod_set_iters)
    /\ UNCHANGED << builder_vars, overflow_checks, sl_vars, dwarf_globals, vir_vars >>

-----------------------------------------------------------------------------
(* The Models and DWARF contexts the emitter is run on                     *)

\* the names a Modifies specification may declare for a stub
EmitModNames == {"pc", "a0", "gv"}

\* the stub of an ignored function with the modifies set mod_set
EmitStub(func_name, entry_addr, mod_set) ==
    FuncModel_new(func_name, entry_addr, arg_exprs(func_name), NoRetDecl,
                  << >>, << >>, << >>,
                  mod_set, Block(<< >>), FALSE)

\* the Models of one or two stubs
EmitFuncModels ==
    { << EmitStub(LabelNames[1], 1, m) >> : m \in SUBSET EmitModNames }
    \cup { << EmitStub(LabelNames[1], 1, m1), EmitStub(LabelNames[SecondLabel], SecondLabel, m2) >> :
             m1 \in SUBSET EmitModNames, m2 \in SUBSET {"pc", "a0"} }

\* the variables of a Model: registers, and an abstracted access that blocks
\* read with two widths
EmitVars ==
    { [name |-> "a0", typ |-> BvType(XLEN)], [name |-> "pc", typ |-> BvType(XLEN)],
      [name |-> "mem_access_12", typ |-> BvType(8)],
      [name |-> "mem_access_12", typ |-> BvType(32)] }

\* DwarfCtx::global_vars() of four contexts: the globals of global_vars, a
\* 16-byte and a 4-byte primitive, a 1-byte primitive with a 1-byte struct,
\* and no global
EmitDwarfGlobals ==
    { << [name |-> "g", memory_addr |-> global_vars.g.memory_addr,
          typ_defn |-> global_vars.g.typ_defn],
         [name |-> "arr", memory_addr |-> global_vars.arr.memory_addr,
          typ_defn |-> global_vars.arr.typ_defn],
         [name |-> "s", memory_addr |-> global_vars.s.memory_addr,
          typ_defn |-> global_vars.s.typ_defn] >>,
      << [name |-> "buf", memory_addr |-> 16, typ_defn |-> Primitive(16)],
         [name |-> "g", memory_addr |-> 4, typ_defn |-> Primitive(4)] >>,
      << [name |-> "c", memory_addr |-> 1, typ_defn |-> Primitive(1)],
         [name |-> "t", memory_addr |-> 2,
          typ_defn |-> DwarfStruct("T", [c |-> Primitive(1)], 1)] >>,
      << >> }

\* the translator after the driver's loop over ignored functions, and the
\* DWARF context it was constructed with
InitEmit ==
    /\ bbs = MkBlocks({1, SecondLabel},
                      [b \in Addrs |-> [op |-> "jalr", imm |-> NoAddr, successors |-> << >>]])
    /\ ignored_funcs = {LabelNames[1], LabelNames[SecondLabel]}
    /\ specs_map = EmptyMap
    /\ ignore_specs = FALSE
    /\ func_models \in EmitFuncModels
    /\ model_vars \in SUBSET EmitVars
    /\ generated = { func_models[i].entry_addr : i \in DOMAIN func_models }
    /\ cfg_memo = EmptyMap
    /\ mod_set_map = EmptyMap
    /\ stack = << >>
    /\ status = "idle"
    /\ err = NoErr
    /\ calls = Len(func_models)
    /\ builds = [a \in Addrs |-> IF a \in generated THEN 1 ELSE 0]
    /\ last_call = func_models[Len(func_models)].name
    /\ overflow_checks = TRUE
    /\ InitSlIdle
    /\ InitVirIdle
    /\ dwarf_globals \in EmitDwarfGlobals
    /\ model_str = NoOutput

NextEmit == print_model

SpecEmit == InitEmit /\ [][NextEmit]_vars

-----------------------------------------------------------------------------
(* Properties of the emitter                                               *)

\* C12: the module the emitter writes for a Model and a DWARF context is the
\* same whatever order the hash sets of the Model iterate in: the variable
\* declarations, the macros, the procedures and the names of every modifies
\* clause come out in one order.
C12_EmitterDeterministic ==
    model_str # NoOutput =>
        \A vars_iter \in Perms(model_vars) : \A mod_set_iters \in ModSetIters :
            model_to_string(vars_iter, mod_set_iters) = model_str

RECURSIVE TypeSizes(_)
\* the byte sizes of the primitives and structs of a type definition
TypeSizes(typ_defn) ==
    CASE typ_defn.d = "Primitive" -> {typ_defn.bytes} \ {0}
      [] typ_defn.d = "Array" -> TypeSizes(typ_defn.in_typ) \cup TypeSizes(typ_defn.out_typ)
      [] typ_defn.d = "Struct" ->
            UnionAll({ TypeSizes(typ_defn.fields[f]) : f \in DOMAIN typ_defn.fields })
            \cup ({typ_defn.bytes} \ {0})

\* C13: the index_by_<n> macros of the written module are one per byte size
\* n found among the globals and the formal arguments, in ascending order
\* of n, and the struct-field macros are in the lexicographic order of
\* their names.
C13_MacrosOrdered ==
    model_str # NoOutput =>
        /\ { model_str.array_defns[i].bytes : i \in DOMAIN model_str.array_defns }
              = UnionAll({ TypeSizes(t) : t \in EmittedTypeDefns })
        /\ \A i, j \in DOMAIN model_str.array_defns :
              i < j => model_str.array_defns[i].bytes < model_str.array_defns[j].bytes
        /\ \A i, j \in DOMAIN model_str.struct_defns :
              i < j => StrLess(NameChars[model_str.struct_defns[i].id] \o << 95 >>
                                   \o NameChars[model_str.struct_defns[i].field],
                               NameChars[model_str.struct_defns[j].id] \o << 95 >>
                                   \o NameChars[model_str.struct_defns[j].field])

-----------------------------------------------------------------------------
(* Properties of the Model and of gen_func_model's frame                   *)

\* s is an initial part of t
IsPrefix(s, t) == Len(s) <= Len(t) /\ \A i \in DOMAIN s : s[i] = t[i]

\* C14: no two FuncModels of the Model have the same name, and every step
\* of the builder keeps the models present, in their order, and appends the
\* new ones: a FuncModel whose name is present is dropped, the first is kept.
C14_FirstModelWins ==
    /\ [](\A i, j \in DOMAIN func_models :
             func_models[i].name = func_models[j].name => i = j)
    /\ [][IsPrefix(func_models, func_models')]_vars

\* C14 witness: the basic-block models of two functions that share a block
\* were added, and the Model holds one model of the shared block
C14_Witness ==
    \E a1, a2 \in DOMAIN cfg_memo :
        /\ a1 # a2
        /\ err.kind # "RewritePanic"
        /\ \E b \in Range(cfg_memo[a1]) \cap Range(cfg_memo[a2]) :
              Cardinality({ i \in DOMAIN func_models :
                              func_models[i].name = bb_proc_name(b) }) = 1

\* the state gen_func_model builds: the Model and the translator's memos
ModelFrame == << model_vars, func_models, mod_set_map, cfg_memo, generated >>

\* C15: a call of gen_func_model by the driver for a function whose entry is
\* in generated, every earlier call having returned, leaves the Model's
\* vars and func_models, mod_set_map, cfg_memo and generated as they are and
\* returns; a call for a name without a label entry fails with all of them
\* as they are.
C15_RepeatedCallChangesNothing ==
    [][calls' = calls + 1 =>
          /\ func_entry_addr(last_call') # NoAddr /\ func_entry_addr(last_call') \in generated
                => UNCHANGED ModelFrame /\ status' = "idle"
          /\ func_entry_addr(last_call') = NoAddr
                => /\ UNCHANGED ModelFrame
                   /\ status' = "panic"
                   /\ err'.kind = "NoEntryAddress"]_vars

\* C15 witness: the driver has called gen_func_model twice for one labelled
\* function, and the second call has returned
C15_Witness ==
    /\ calls = 2
    /\ status = "idle"
    /\ Cardinality(generated) = 1
    /\ func_entry_addr(last_call) \in generated \cap DOMAIN cfg_memo
    /\ Len(cfg_memo[func_entry_addr(last_call)]) >= 2

-----------------------------------------------------------------------------
(* Properties of Pass 1 (type inference and implicit dereference)          *)

\* the type of the first source that knows the name, in the order system
\* identifiers, formal arguments of fname, quantifier scope, DWARF globals
FirstSourceType(name, fname, scope) ==
    IF name \in SystemVarNames THEN from_ast_type(system_var_type(name))
    ELSE IF is_formal_arg(fname, name) THEN formal_arg_type(fname, name)
    ELSE IF name \in DOMAIN scope THEN scope[name]
    ELSE IF has_global_var(name) THEN from_dwarf_type(global_vars[name].typ_defn)
    ELSE NoType

RECURSIVE IdentsTyped(_, _, _)
\* every identifier of the value expression, the field name of a field
\* select apart, that some source knows carries the type of the first one
IdentsTyped(vexpr, fname, scope) ==
    CASE vexpr.v = "Ident" ->
            FirstSourceType(vexpr.name, fname, scope) \in {NoType, vexpr.typ}
      [] vexpr.v = "OpApp" ->
            IF vexpr.op.f = "GetField"
            THEN IdentsTyped(vexpr.exprs[1], fname, scope)
            ELSE \A i \in DOMAIN vexpr.exprs : IdentsTyped(vexpr.exprs[i], fname, scope)
      [] vexpr.v = "FuncApp" ->
            \A i \in DOMAIN vexpr.exprs : IdentsTyped(vexpr.exprs[i], fname, scope)
      [] OTHER -> TRUE

RECURSIVE BIdentsTyped(_, _, _)
\* the same for a boolean expression; a quantifier adds its bound identifier
\* to the scope of its operands
BIdentsTyped(bexpr, fname, scope) ==
    CASE bexpr.b = "BOpApp" ->
            LET inner == TI_rewrite_bexpr_boolop(bexpr.bop, scope)
            IN  \A i \in DOMAIN bexpr.exprs : BIdentsTyped(bexpr.exprs[i], fname, inner)
      [] bexpr.b = "COpApp" ->
            \A i \in DOMAIN bexpr.exprs : IdentsTyped(bexpr.exprs[i], fname, scope)
      [] OTHER -> TRUE

\* Pass 1 ran on the specification and did not fail
TypeInferenceDone == sl_passes = << 1 >> /\ ~SlIsPanic(sl_bexpr)

\* C16: after Pass 1 every identifier node carries the type of the first
\* source that knows its name, in the order system identifiers, formal
\* arguments of the current function, quantifier scope, DWARF globals
C16_IdentTypedByFirstSource ==
    TypeInferenceDone => BIdentsTyped(sl_bexpr, sl_fname, EmptyMap)

RECURSIVE NoStrayIdent(_, _, _)
\* no identifier of the value expression is unknown to every source, the
\* field name of a field select apart
NoStrayIdent(vexpr, fname, scope) ==
    CASE vexpr.v = "Ident" -> FirstSourceType(vexpr.name, fname, scope) # NoType
      [] vexpr.v = "OpApp" ->
            IF vexpr.op.f = "GetField"
            THEN NoStrayIdent(vexpr.exprs[1], fname, scope)
            ELSE \A i \in DOMAIN vexpr.exprs : NoStrayIdent(vexpr.exprs[i], fname, scope)
      [] vexpr.v = "FuncApp" ->
            \A i \in DOMAIN vexpr.exprs : NoStrayIdent(vexpr.exprs[i], fname, scope)
      [] OTHER -> TRUE

RECURSIVE BNoStrayIdent(_, _, _)
\* the same for a boolean expression
BNoStrayIdent(bexpr, fname, scope) ==
    CASE bexpr.b = "BOpApp" ->
            LET inner == TI_rewrite_bexpr_boolop(bexpr.bop, scope)
            IN  \A i \in DOMAIN bexpr.exprs : BNoStrayIdent(bexpr.exprs[i], fname, inner)
      [] bexpr.b = "COpApp" ->
            \A i \in DOMAIN bexpr.exprs : NoStrayIdent(bexpr.exprs[i], fname, scope)
      [] OTHER -> TRUE

\* C17: Pass 1 fails on an identifier that is no system identifier, formal
\* argument, bound variable or global unless it is the field name of a field
\* select: a tree the pass returns holds no such identifier elsewhere
C17_UnknownIdentFails ==
    sl_passes = << 1 >> =>
        \/ SlIsPanic(sl_bexpr)
        \/ BNoStrayIdent(sl_bexpr, sl_fname, EmptyMap)

\* the identifier resolves as a global: no earlier source knows the name
ResolvesAsGlobal(name, fname, scope) ==
    /\ name \notin SystemVarNames
    /\ ~is_formal_arg(fname, name)
    /\ name \notin DOMAIN scope
    /\ has_global_var(name)

RECURSIVE DerefsOK(_, _, _, _)
\* every global identifier of the value expression, met below `derefs`
\* directly nested Deref nodes, is below exactly one Deref of its own type
\* when its type is a bit-vector and below none otherwise
DerefsOK(vexpr, derefs, fname, scope) ==
    CASE vexpr.v = "Ident" ->
            ResolvesAsGlobal(vexpr.name, fname, scope) =>
                LET typ == from_dwarf_type(global_vars[vexpr.name].typ_defn)
                IN  /\ vexpr.typ = typ
                    /\ derefs = (IF typ.t = "Bv" THEN 1 ELSE 0)
      [] vexpr.v = "OpApp" ->
            IF vexpr.op.f = "Deref"
            THEN /\ vexpr.exprs[1].v = "Ident" => vexpr.typ = vexpr.exprs[1].typ
                 /\ DerefsOK(vexpr.exprs[1], derefs + 1, fname, scope)
            ELSE IF vexpr.op.f = "GetField"
            THEN DerefsOK(vexpr.exprs[1], 0, fname, scope)
            ELSE \A i \in DOMAIN vexpr.exprs : DerefsOK(vexpr.exprs[i], 0, fname, scope)
      [] vexpr.v = "FuncApp" ->
            \A i \in DOMAIN vexpr.exprs : DerefsOK(vexpr.exprs[i], 0, fname, scope)
      [] OTHER -> TRUE

RECURSIVE BDerefsOK(_, _, _)
\* the same for a boolean expression
BDerefsOK(bexpr, fname, scope) ==
    CASE bexpr.b = "BOpApp" ->
            LET inner == TI_rewrite_bexpr_boolop(bexpr.bop, scope)
            IN  \A i \in DOMAIN bexpr.exprs : BDerefsOK(bexpr.exprs[i], fname, inner)
      [] bexpr.b = "COpApp" ->
            \A i \in DOMAIN bexpr.exprs : DerefsOK(bexpr.exprs[i], 0, fname, scope)
      [] OTHER -> TRUE

\* C18: after Pass 1 every identifier that resolves as a global of
\* bit-vector type is wrapped in exactly one Deref of the same type, also
\* as an argument of old, value, sext and uext, and a global of struct or
\* array type is wrapped in none
C18_OneDerefPerPrimitiveGlobal ==
    TypeInferenceDone => BDerefsOK(sl_bexpr, sl_fname, EmptyMap)

-----------------------------------------------------------------------------
(* Properties of the models of ignored functions and of the specification  *)
(* lists of the models                                                     *)

\* the function whose gen_func_model a step enters: the one the driver
\* names, or the callee the recursion loop has reached
EnteredFunc ==
    IF calls' = calls + 1 THEN last_call'
    ELSE IF status = "running" /\ stack # << >> /\ Top.idx <= Len(Top.callees)
         THEN get_func_at(Top.callees[Top.idx])
         ELSE NoName

\* the names the Modifies specifications declared for the function list
DeclaredModifies(name) ==
    IF name \in DOMAIN specs_map
    THEN { v \in UNION { specs_map[name][i].vars :
                           i \in { j \in DOMAIN specs_map[name] :
                                     specs_map[name][j].kind = "Modifies" } } : TRUE }
    ELSE {}

\* fm is the stub of the function name
IsStub(fm, name) ==
    /\ fm.name = name
    /\ fm.entry_addr = func_entry_addr(name)
    /\ fm.body = Block(<< >>)
    /\ fm.inline = FALSE
    /\ Len(fm.arg_decls) = Len(func_args(name))
    /\ \A i \in DOMAIN fm.arg_decls :
          fm.arg_decls[i] = var(func_args(name)[i].name, BvType(XLEN))
    /\ fm.ret_decl = NoRetDecl
    /\ fm.mod_set = DeclaredModifies(name)

\* C19: gen_func_model of an ignored function that is not generated yet
\* adds exactly one FuncModel, the stub (empty Block body, not inline, one
\* XLEN-wide argument per DWARF formal, no return type, the union of the
\* declared Modifies sets as modifies set); the call builds no Cfg, adds no
\* basic-block procedure or variable and enters no callee; the stub stays
\* the only model of that name
C19_IgnoredFunctionGetsStub ==
    /\ [][(/\ EnteredFunc \in ignored_funcs
           /\ func_entry_addr(EnteredFunc) # NoAddr
           /\ func_entry_addr(EnteredFunc) \notin generated)
          => /\ func_models' = Append(func_models, func_models'[Len(func_models')])
             /\ IsStub(func_models'[Len(func_models')], EnteredFunc)
             /\ generated' = generated \cup {func_entry_addr(EnteredFunc)}
             /\ UNCHANGED << cfg_memo, mod_set_map, model_vars >>
             /\ Len(stack') <= Len(stack)
             /\ status' = IF stack' = << >> THEN "idle" ELSE "running"]_vars
    /\ [](\A name \in ignored_funcs :
             (func_entry_addr(name) # NoAddr /\ func_entry_addr(name) \in generated)
             => /\ Cardinality({ i \in DOMAIN func_models :
                                   func_models[i].name = name }) = 1
                /\ IsStub(ModelOf(name), name)
                /\ func_entry_addr(name) \notin DOMAIN cfg_memo)

\* an ignored function that calls the first function and has formal
\* arguments and two Modifies specifications was the driver's first call:
\* its stub is the only model and its callee is not generated
C19_Witness ==
    /\ calls = 1
    /\ status = "idle"
    /\ last_call \in ignored_funcs
    /\ last_call \in DOMAIN specs_map
    /\ \E b \in DOMAIN bbs :
          bbs[b].function_name = last_call /\ bbs[b].op = JAL /\ bbs[b].imm = 1
    /\ generated = {func_entry_addr(last_call)}
    /\ Len(func_models) = 1
    /\ Len(func_models[1].arg_decls) = 1
    /\ func_models[1].mod_set = {"gv", "gw"}
    /\ func_models[1].body = Block(<< >>)

\* the items of one kind the specification map lists for the function, in
\* the order of the map
DeclaredItems(name, kind) ==
    IF name \in DOMAIN specs_map
    THEN LET picked == { j \in DOMAIN specs_map[name] : specs_map[name][j].kind = kind }
             nth(k) == CHOOSE j \in picked :
                          Cardinality({ h \in picked : h < j }) = k - 1
         IN  [k \in 1..Cardinality(picked) |-> specs_map[name][nth(k)]]
    ELSE << >>

\* C20: with ignore_specs set every FuncModel of the Model has empty
\* requires, ensures and tracked lists whatever the specification map
\* holds; without it the lists are the Requires, Ensures and Track items of
\* the specification map for the function, in order
C20_SpecListsFollowIgnoreSpecs ==
    \A i \in DOMAIN func_models :
        LET fm == func_models[i]
        IN  IF ignore_specs
            THEN fm.requires = << >> /\ fm.ensures = << >> /\ fm.tracked = << >>
            ELSE /\ fm.requires = DeclaredItems(fm.name, "Requires")
                 /\ fm.ensures = DeclaredItems(fm.name, "Ensures")
                 /\ fm.tracked = DeclaredItems(fm.name, "Track")

-----------------------------------------------------------------------------
(* The rewriters of a basic-block body on their own: the closure of        *)
(* gen_func_model (translator.rs:259-265) that runs ConstantPropagator and  *)
(* DataMemoryAbstractor on the body and adds the abstracted variables to    *)
(* the Model, one step per statement of the body                            *)

\* ConstantPropagator::visit_stmt on the next statement of the Block
\* (visit_stmt_block maps visit_stmt over the statements in order)
propagate_stmt ==
    /\ vir_phase = "propagate"
    /\ Len(cp_stmts) < Len(cp_input)
    /\ \E r \in { CP_visit_stmt(cp_input[Len(cp_stmts) + 1], cp_ctx) } :
          IF StmtPanics(r.stmt)
          THEN /\ vir_phase' = "panic"
               /\ UNCHANGED << cp_ctx, cp_stmts >>
          ELSE /\ cp_stmts' = Append(cp_stmts, r.stmt)
               /\ cp_ctx' = r.ctx
               /\ vir_phase' = vir_phase
    /\ UNCHANGED << builder_vars, overflow_checks, sl_vars, emit_vars, cp_input,
                    dma_body, dma_vars >>

\* DataMemoryAbstractor::visit_stmt on the propagated body with a fresh set
abstract_memory ==
    /\ vir_phase = "propagate"
    /\ Len(cp_stmts) = Len(cp_input)
    /\ \E body \in { DMA_visit_stmt(Block(cp_stmts)) } :
          IF StmtPanics(body)
          THEN /\ vir_phase' = "panic"
               /\ UNCHANGED << dma_body, dma_vars >>
          ELSE /\ dma_body' = body
               /\ dma_vars' = DMA_stmt_vars(Block(cp_stmts))
               /\ vir_phase' = "abstract"
    /\ UNCHANGED << builder_vars, overflow_checks, sl_vars, emit_vars, cp_input,
                    cp_ctx, cp_stmts >>

\* Model::add_vars: every abstracted variable is inserted into Model.vars
add_vars ==
    /\ vir_phase = "abstract"
    /\ model_vars' = model_vars \cup dma_vars
    /\ vir_phase' = "done"
    /\ UNCHANGED << bbs, ignored_funcs, specs_map, ignore_specs, generated, cfg_memo,
                    mod_set_map, func_models, stack, status, err, calls, builds,
                    last_call, overflow_checks, sl_vars, emit_vars, cp_input,
                    cp_ctx, cp_stmts, dma_body, dma_vars >>

-----------------------------------------------------------------------------
(* The basic-block bodies the rewriters are run on                         *)

\* a width below that of the machine word
NarrowBits == 2

\* the statements of the instructions of a block: register moves of a
\* literal and of a sum, loads and stores through the memory arrays, a
\* branch and a call that writes a register
VirStmts ==
    { Assign(<< reg("a0") >>, << bv_lit(c, XLEN) >>) : c \in {1, 12} }
    \cup { Assign(<< reg("a1") >>,
                  << op_app(BVOp("Add"), << reg(r), bv_lit(1, XLEN) >>) >>) :
             r \in {"a0", "a2"} }
    \cup { Assign(<< op_app(ArrayIndexOp,
                            << mem_var(MEM_VAR_W, 4),
                               op_app(BVOp("Add"), << reg("a0"), bv_lit(2, XLEN) >>) >>) >>,
                  << reg("a1") >>) }
    \cup { Assign(<< reg("a1") >>,
                  << op_app(ArrayIndexOp, << mem_var(m, MemVarBytes(m)), reg("a0") >>) >>) :
             m \in {MEM_VAR_B, MEM_VAR_H, MEM_VAR_W, MEM_VAR_D} }
    \cup { if_then_else(op_app(CompOp("Equality"), << reg("a0"), reg("a1") >>),
                        Assign(<< pc_var >>, << bv_lit(8, XLEN) >>),
                        Assign(<< pc_var >>,
                               << op_app(BVOp("Add"), << pc_var, bv_lit(4, XLEN) >>) >>)) }
    \cup { func_call("csrrw", << reg("a0") >>, << reg("a1") >>) }

\* number of statements of a block body
MaxStmts == 3

\* the bodies of one to MaxStmts statements
VirBlocks ==
    UNION { [1..n -> VirStmts] : n \in 1..MaxStmts }

\* the literals of a width: every value the width holds
FoldLits(w) ==
    { bv_lit(v, w) : v \in 0..((IF w = XLEN THEN U64Mod ELSE 2 ^ w) - 1) }

FoldWidths == {NarrowBits, XLEN}

FoldBvOps ==
    {"Add", "Sub", "Mul", "And", "Or", "Xor", "SignExt", "ZeroExt",
     "LeftShift", "RightShift", "ARightShift"}

FoldCompOps ==
    {"Equality", "Inequality", "Lt", "Le", "Gt", "Ge", "Ltu", "Leu", "Gtu", "Geu"}

\* operator applications on literal operands: a bit-vector operator or a
\* comparison on two literals of one width, and a slice of one literal
FoldExprs ==
    UNION { { op_app(op, << a, b >>) :
                a \in FoldLits(w), b \in FoldLits(w),
                op \in { BVOp(f) : f \in FoldBvOps } \cup { CompOp(f) : f \in FoldCompOps } } :
            w \in FoldWidths }
    \cup UNION { { op_app(Slice(l, r), << a >>) :
                     a \in FoldLits(w),
                     l \in 0..(WordBits - 1), r \in 0..(WordBits - 1) } :
                 w \in FoldWidths }

\* the bodies of one assignment of such an application to a register
FoldBlocks == { << Assign(<< var("t0", e.typ) >>, << e >>) >> : e \in FoldExprs }

InitVir ==
    /\ InitSirContext
    /\ overflow_checks \in BOOLEAN
    /\ InitSlIdle
    /\ InitEmitIdle
    /\ cp_input \in VirBlocks \cup FoldBlocks
    /\ cp_ctx = EmptyMap
    /\ cp_stmts = << >>
    /\ dma_body = NoStmt
    /\ dma_vars = {}
    /\ vir_phase = "propagate"

NextVir ==
    \/ propagate_stmt
    \/ abstract_memory
    \/ add_vars

SpecVir == InitVir /\ [][NextVir]_vars

-----------------------------------------------------------------------------
(* Properties of the rewriters of a basic-block body                       *)

\* the statement a step of the propagator consumes and the one it emits
CpNext == cp_input[Len(cp_stmts) + 1]
CpEmitted == cp_stmts'[Len(cp_stmts')]

\* the step emits a statement
CpStep == Len(cp_stmts') = Len(cp_stmts) + 1

\* the maps agree on every name but v
SameBut(m1, m2, v) ==
    /\ (DOMAIN m1) \ {v} = (DOMAIN m2) \ {v}
    /\ \A k \in (DOMAIN m1) \ {v} : m1[k] = m2[k]

\* C21: the propagator's map starts empty and the statements are taken in
\* order; an Assign to a variable v whose substituted and folded right-hand
\* side is a literal c leaves v -> c in the map and emits v = c, and one
\* whose right-hand side is no literal leaves v out of the map; an Assign to
\* an array index changes no entry; an IfThenElse empties the map and is
\* emitted unchanged
C21_PropagatorMap ==
    /\ [](vir_phase = "propagate" /\ cp_stmts = << >> => cp_ctx = EmptyMap)
    /\ [][CpStep =>
            /\ cp_stmts' = Append(cp_stmts, CpEmitted)
            /\ (CpNext.s = "Assign" /\ Len(CpNext.lhs) = 1 /\ CpNext.lhs[1].e = "Var") =>
                  LET v == CpNext.lhs[1].name
                      folded == try_make_constant(CpNext.rhs[1], cp_ctx)
                  IN  /\ SameBut(cp_ctx, cp_ctx', v)
                      /\ CpEmitted = Assign(CpNext.lhs, << folded >>)
                      /\ is_lit(folded) => v \in DOMAIN cp_ctx' /\ cp_ctx'[v] = folded.val
                      /\ ~is_lit(folded) => v \notin DOMAIN cp_ctx'
            /\ (CpNext.s = "Assign" /\ Len(CpNext.lhs) = 1 /\ is_array_index(CpNext.lhs[1])) =>
                  cp_ctx' = cp_ctx
            /\ CpNext.s = "IfThenElse" =>
                  cp_ctx' = EmptyMap /\ CpEmitted = CpNext]_vars

\* a register got a literal, a second one its successor and then a value
\* that is no literal: the first entry is kept and the second one is gone
C21_Witness ==
    /\ Len(cp_stmts) = 3
    /\ cp_input[1] = Assign(<< reg("a0") >>, << bv_lit(12, XLEN) >>)
    /\ cp_stmts[2] = Assign(<< reg("a1") >>, << bv_lit(13, XLEN) >>)
    /\ cp_input[3].s = "Assign" /\ cp_input[3].lhs[1] = reg("a1")
    /\ ~is_lit(cp_stmts[3].rhs[1])
    /\ DOMAIN cp_ctx = {"a0"}
    /\ cp_ctx["a0"] = 12

\* the access reads or writes a memory array at a literal index
IsLiteralAccess(expr) ==
    /\ expr.e = "OpApp"
    /\ expr.op = ArrayIndexOp
    /\ expr.operands[1].e = "Var"
    /\ expr.operands[1].name \in {MEM_VAR_B, MEM_VAR_H, MEM_VAR_W, MEM_VAR_D}
    /\ expr.operands[2].e = "Literal"

\* the variable that stands for such an access
AccessVar(expr) ==
    [name |-> MemAccessNames[expr.operands[2].val + 1],
     typ |-> BvType(CASE expr.operands[1].name = MEM_VAR_B -> 8
                      [] expr.operands[1].name = MEM_VAR_H -> 16
                      [] expr.operands[1].name = MEM_VAR_W -> 32
                      [] expr.operands[1].name = MEM_VAR_D -> 64)]

RECURSIVE Abstracted(_, _)
\* after is before with every access at a literal index replaced by its
\* variable and nothing else changed
Abstracted(before, after) ==
    IF IsLiteralAccess(before)
    THEN after = var(AccessVar(before).name, AccessVar(before).typ)
    ELSE IF before.e \in {"OpApp", "FuncApp"}
    THEN /\ after.e = before.e
         /\ after.typ = before.typ
         /\ before.e = "OpApp" => after.op = before.op
         /\ before.e = "FuncApp" => after.func_name = before.func_name
         /\ Len(after.operands) = Len(before.operands)
         /\ \A i \in DOMAIN before.operands :
               Abstracted(before.operands[i], after.operands[i])
    ELSE after = before

RECURSIVE LiteralAccesses(_)
\* the variables of the accesses at a literal index within the expression
LiteralAccesses(expr) ==
    IF IsLiteralAccess(expr) THEN { AccessVar(expr) }
    ELSE IF expr.e \in {"OpApp", "FuncApp"}
    THEN UNION { LiteralAccesses(expr.operands[i]) : i \in DOMAIN expr.operands }
    ELSE {}

\* the expressions of an Assign or FuncCall statement, left-hand sides first
StmtExprs(stmt) ==
    CASE stmt.s = "Assign" -> stmt.lhs \o stmt.rhs
      [] stmt.s = "FuncCall" -> stmt.lhs \o stmt.operands
      [] OTHER -> << >>

\* the memory was abstracted in the propagated body
MemoryAbstracted == vir_phase \in {"abstract", "done"}

FoldedOne ==
    /\ Len(cp_input) = 1
    /\ Len(cp_stmts) = 1
    /\ cp_input[1].s = "Assign"
    /\ cp_input[1].rhs[1].e = "OpApp"
    /\ \A i \in DOMAIN cp_input[1].rhs[1].operands : is_lit(cp_input[1].rhs[1].operands[i])

\* the application that was folded, its operands and the result
FoldIn == cp_input[1].rhs[1]
FoldArg(i) == cp_input[1].rhs[1].operands[i]
FoldOut == cp_stmts[1].rhs[1]

RECURSIVE OnesFrom(_, _)
\* the word with ones in exactly the bit positions lo..hi
OnesFrom(lo, hi) == IF lo > hi THEN 0 ELSE 2 ^ lo + OnesFrom(lo + 1, hi)

\* C23: for all bit positions lo <= hi of the word the mask of a Slice has
\* ones in exactly the positions lo..hi, the top position of the word
\* included, and folding the Slice of a literal v yields v AND that mask
C23_MaskCoversSlice ==
    (FoldedOne /\ FoldIn.op.f = "Slice" /\ FoldIn.op.r <= FoldIn.op.l) =>
        /\ mask(FoldIn.op.l, FoldIn.op.r) = OnesFrom(FoldIn.op.r, FoldIn.op.l)
        /\ is_lit(FoldOut)
        /\ FoldOut.val = U64And(FoldArg(1).val, OnesFrom(FoldIn.op.r, FoldIn.op.l))

\* Uclid5Interface::bv_app_to_string on the shifts: the operator a shift
\* that is left unfolded is written with
bv_shift_name(f) ==
    CASE f = "LeftShift" -> "bv_left_shift"
      [] f = "RightShift" -> "bv_l_right_shift"
      [] f = "ARightShift" -> "bv_a_right_shift"

\* the number of bits of the model word a literal of the width has
WidthBits(w) == IF w = XLEN THEN WordBits ELSE w

\* the value of a bit-vector of the given number of bits read as a
\* two's-complement number, and the bit-vector of a number
SignedAt(v, bits) == IF v >= 2 ^ (bits - 1) THEN v - 2 ^ bits ELSE v
UnsignedAt(n, bits) == n % (2 ^ bits)

\* what the verifier's shift operators denote on bit-vectors of the given
\* number of bits: left shift, logical and arithmetic right shift
ShiftDenotes(name, v, s, bits) ==
    LET by == IF s > bits THEN bits ELSE s
    IN  CASE name = "bv_left_shift" -> (v * 2 ^ by) % (2 ^ bits)
          [] name = "bv_l_right_shift" -> v \div (2 ^ by)
          [] name = "bv_a_right_shift" ->
                UnsignedAt(SignedAt(v, bits) \div (2 ^ by), bits)

\* C24: the fold of a shift on literal operands is the value the operator
\* the shift is emitted with denotes: logical right shift for RightShift
\* (bv_l_right_shift), arithmetic right shift for ARightShift
\* (bv_a_right_shift), left shift for LeftShift
C24_ShiftFoldMatchesOperator ==
    (FoldedOne /\ FoldIn.op.f \in {"LeftShift", "RightShift", "ARightShift"}) =>
        /\ is_lit(FoldOut)
        /\ FoldOut.val = ShiftDenotes(bv_shift_name(FoldIn.op.f), FoldArg(1).val,
                                      FoldArg(2).val, WidthBits(FoldArg(1).width))

\* the comparison of two bit-vectors of the given number of bits: signed
\* for Lt, Le, Gt, Ge, unsigned for Ltu, Leu, Gtu, Geu, by value otherwise
CompareAt(f, a, b, bits) ==
    CASE f = "Equality"   -> a = b
      [] f = "Inequality" -> a # b
      [] f = "Lt"  -> SignedAt(a, bits) < SignedAt(b, bits)
      [] f = "Le"  -> SignedAt(a, bits) <= SignedAt(b, bits)
      [] f = "Gt"  -> SignedAt(a, bits) > SignedAt(b, bits)
      [] f = "Ge"  -> SignedAt(a, bits) >= SignedAt(b, bits)
      [] f = "Ltu" -> a < b
      [] f = "Leu" -> a <= b
      [] f = "Gtu" -> a > b
      [] f = "Geu" -> a >= b

\* C25: the fold of a comparison of two Bv literals of width w is the Bool
\* literal of the comparison at width w: Lt, Le, Gt and Ge compare the
\* operands as two's-complement numbers of w bits, Ltu, Leu, Gtu and Geu
\* as unsigned numbers, Equality and Inequality by value
C25_ComparisonAtWidth ==
    (FoldedOne /\ FoldIn.op.o = "Comp") =>
        FoldOut = bool_lit(CompareAt(FoldIn.op.f, FoldArg(1).val, FoldArg(2).val,
                                     WidthBits(FoldArg(1).width)))

\* C26: no two variables of the Model have one name and two types; accesses
\* through memory arrays of different widths at one literal address declare
\* no two variables of the name mem_access_<addr>
C26_OneTypePerName ==
    \A v1 \in model_vars : \A v2 \in model_vars : v1.name = v2.name => v1.typ = v2.typ

\* C27: after a FuncCall whose left-hand side holds the variable v the
\* propagator's map holds no value for v, so that a later read of v in the
\* block is not replaced by the constant v had before the call
C27_CallForgetsWrittenVars ==
    [][(CpStep /\ CpNext.s = "FuncCall") =>
          \A i \in DOMAIN CpNext.lhs :
              CpNext.lhs[i].e = "Var" => CpNext.lhs[i].name \notin DOMAIN cp_ctx']_vars

\* the number of bits of the model word a literal of the width has, for
\* widths that an extension took above the word as well
ExtBits(w) == IF w >= XLEN THEN WordBits + (w - XLEN) ELSE w

\* the sign extension by n bits of a bit-vector of the given number of bits
SignExtAt(v, bits, n) ==
    IF v >= 2 ^ (bits - 1) THEN v + (2 ^ n - 1) * 2 ^ bits ELSE v

\* C28: every Bv literal produced by constant folding has a value below 2 to
\* its width: Add, Sub, Mul and LeftShift results are reduced modulo 2 to the
\* width of operand 0, SignExt of a value with its top bit set fills the new
\* high bits, and Slice{l,r} yields the selected bits shifted down to bit 0
\* at width l-r+1
C28_FoldedLiteralFitsWidth ==
    (FoldedOne /\ is_lit(FoldOut) /\ FoldOut.lit = "Bv") =>
        /\ FoldOut.val < 2 ^ ExtBits(FoldOut.width)
        /\ FoldIn.op.f \in {"Add", "Sub", "Mul"} =>
              FoldOut.val = (CASE FoldIn.op.f = "Add" -> FoldArg(1).val + FoldArg(2).val
                               [] FoldIn.op.f = "Sub" -> FoldArg(1).val - FoldArg(2).val
                               [] FoldIn.op.f = "Mul" -> FoldArg(1).val * FoldArg(2).val)
                            % (2 ^ WidthBits(FoldArg(1).width))
        /\ FoldIn.op.f = "LeftShift" =>
              FoldOut.val = ShiftDenotes("bv_left_shift", FoldArg(1).val, FoldArg(2).val,
                                         WidthBits(FoldArg(1).width))
        /\ FoldIn.op.f = "SignExt" =>
              FoldOut.val = SignExtAt(FoldArg(1).val, WidthBits(FoldArg(1).width),
                                      FoldArg(2).val)
        /\ (FoldIn.op.f = "Slice" /\ FoldIn.op.r <= FoldIn.op.l) =>
              /\ FoldOut.width = FoldIn.op.l - FoldIn.op.r + 1
              /\ FoldOut.val = (FoldArg(1).val \div 2 ^ FoldIn.op.r)
                               % (2 ^ (FoldIn.op.l - FoldIn.op.r + 1))

RECURSIVE FoldKeepsType(_, _)
\* every OpApp of the value expression before the pass that stands as a
\* literal in the expression after it gave the literal its type
FoldKeepsType(before, after) ==
    CASE before.v = "OpApp" /\ sl_is_lit(after) -> after.typ = before.typ
      [] before.v \in {"OpApp", "FuncApp"} /\ after.v = before.v ->
            \A i \in DOMAIN before.exprs :
                i \in DOMAIN after.exprs => FoldKeepsType(before.exprs[i], after.exprs[i])
      [] OTHER -> TRUE

RECURSIVE BFoldKeepsType(_, _)
\* the same through the boolean operators and the comparisons
BFoldKeepsType(before, after) ==
    CASE before.b = "BOpApp" /\ after.b = "BOpApp" ->
            \A i \in DOMAIN before.exprs :
                i \in DOMAIN after.exprs => BFoldKeepsType(before.exprs[i], after.exprs[i])
      [] before.b = "COpApp" /\ after.b = "COpApp" ->
            \A i \in DOMAIN before.exprs :
                i \in DOMAIN after.exprs => FoldKeepsType(before.exprs[i], after.exprs[i])
      [] OTHER -> TRUE

\* C29: Pass 3 preserves the type Pass 1 annotated on a node: a literal that
\* constant folding puts in the place of an OpApp has the type the OpApp
\* carried before the pass (for the shifts, for Slice, for the arithmetic
\* operators and for ArrayIndex)
C29_FoldPreservesNodeType ==
    (sl_passes = << 1, 2, 3 >> /\ ~SlIsPanic(sl_bexpr)) => BFoldKeepsType(sl_prev, sl_bexpr)

RECURSIVE VExprDerefs(_)
\* the names of the identifiers of a value expression that stand under a Deref
VExprDerefs(vexpr) ==
    CASE vexpr.v \in {"OpApp", "FuncApp"} ->
            (IF vexpr.v = "OpApp" /\ vexpr.op.f = "Deref" /\ vexpr.exprs[1].v = "Ident"
             THEN {vexpr.exprs[1].name} ELSE {})
            \cup UnionAll({ VExprDerefs(vexpr.exprs[i]) : i \in DOMAIN vexpr.exprs })
      [] OTHER -> {}

RECURSIVE BExprDerefs(_)
\* the same for a boolean expression
BExprDerefs(bexpr) ==
    CASE bexpr.b = "BOpApp" ->
            UnionAll({ BExprDerefs(bexpr.exprs[i]) : i \in DOMAIN bexpr.exprs })
      [] bexpr.b = "COpApp" ->
            UnionAll({ VExprDerefs(bexpr.exprs[i]) : i \in DOMAIN bexpr.exprs })
      [] OTHER -> {}

\* the identifiers of the parsed expression that name a formal argument of
\* the function and a DWARF global at once
ShadowingFormals ==
    { name \in BExprIdents(sl_input) :
        is_formal_arg(sl_fname, name) /\ has_global_var(name) }

\* C30: a formal argument of the current function that has the name of a
\* DWARF global shadows the global through the lowering pipeline: Pass 1
\* types it as a formal and puts no Deref around it, and Pass 2 leaves it an
\* Ident instead of replacing it by the address of the global
C30_FormalShadowsGlobal ==
    \A name \in ShadowingFormals :
        /\ (sl_passes = << 1 >> /\ ~SlIsPanic(sl_bexpr)) =>
              /\ name \in BExprIdents(sl_bexpr)
              /\ name \notin BExprDerefs(sl_bexpr)
        /\ (sl_passes = << 1, 2 >> /\ ~SlIsPanic(sl_bexpr)) =>
              name \in BExprIdents(sl_bexpr)

=============================================================================
